---- MODULE Spec2Model ----
(***************************************************************************)
(* A model of the edd_agent evaluation harness: the retry controller       *)
(* (src/edd/src/agent.py), the lightweight validator                       *)
(* (src/edd/src/validation.py), the evaluation engine                      *)
(* (src/edd/eval_runner.py) and the per-task loop of the run               *)
(* (src/edd/main.py).                                                      *)
(*                                                                         *)
(* Representation of Python values:                                        *)
(*   - a text is a sequence of one-character strings;                      *)
(*   - an optional value (a key that is missing or null) is a sequence of  *)
(*     length 0 (None) or 1 (<<v>>);                                       *)
(*   - a float is an exact rational [n |-> numerator, d |-> denominator];  *)
(*   - a JSON value whose null and missing forms behave differently in the *)
(*     code carries a tag "absent" | "null" | "empty" | "obj".             *)
(***************************************************************************)
EXTENDS Integers, Sequences, FiniteSets, TLC

(***************************************************************************)
(* Texts                                                                   *)
(***************************************************************************)
None == <<>>

Some(v) == <<v>>

IsNone(o) == Len(o) = 0

Val(o) == o[1]

UpperToLower ==
  [A |-> "a", B |-> "b", C |-> "c", D |-> "d", E |-> "e", F |-> "f",
   G |-> "g", H |-> "h", I |-> "i", J |-> "j", K |-> "k", L |-> "l",
   M |-> "m", N |-> "n", O |-> "o", P |-> "p", Q |-> "q", R |-> "r",
   S |-> "s", T |-> "t", U |-> "u", V |-> "v", W |-> "w", X |-> "x",
   Y |-> "y", Z |-> "z"]

\* str.lower() on one character
LowerChar(c) == IF c \in DOMAIN UpperToLower THEN UpperToLower[c] ELSE c

\* str.lower()
Lower(s) == [i \in 1..Len(s) |-> LowerChar(s[i])]

\* needle in hay (Python substring test)
Contains(hay, needle) ==
  \E i \in 0..(Len(hay) - Len(needle)) :
     \A k \in 1..Len(needle) : hay[i + k] = needle[k]

\* Python truthiness of an optional text: None and "" are falsy
Truthy(o) == ~IsNone(o) /\ Len(Val(o)) > 0

\* (o or "")
OrEmpty(o) == IF Truthy(o) THEN Val(o) ELSE <<>>

(***************************************************************************)
(* Rationals standing for Python floats                                    *)
(***************************************************************************)
Frac(n, d) == [n |-> n, d |-> d]

\* a slip: strict comparison
FracLe_strict(x, y) == x.n * y.d < y.n * x.d

FracLe(x, y) == x.n * y.d <= y.n * x.d

FracLt(x, y) == x.n * y.d < y.n * x.d

FracEq(x, y) == x.n * y.d = y.n * x.d

One == Frac(1, 1)

Zero == Frac(0, 1)

(***************************************************************************)
(* difflib.SequenceMatcher(None, a, b).ratio() for texts shorter than the  *)
(* 200 characters at which the autojunk heuristic starts.                  *)
(* Positions are 0-based half-open ranges as in difflib.                   *)
(***************************************************************************)
\* a[i:i+k] == b[j:j+k]
BlockMatches(a, b, i, j, k) == \A t \in 1..k : a[i + t] = b[j + t]

\* the candidate blocks inside a[alo:ahi], b[blo:bhi]
Blocks(a, b, alo, ahi, blo, bhi) ==
  { <<i, j, k>> \in (alo..ahi) \X (blo..bhi) \X (1..(ahi - alo)) :
      /\ i + k <= ahi
      /\ j + k <= bhi
      /\ BlockMatches(a, b, i, j, k) }

\* find_longest_match: a longest block, earliest in a, then earliest in b
FindLongestMatch(a, b, alo, ahi, blo, bhi) ==
  LET bs == Blocks(a, b, alo, ahi, blo, bhi)
  IN  IF bs = {} THEN <<alo, blo, 0>>
      ELSE CHOOSE m \in bs :
             \A o \in bs :
                \/ o[3] < m[3]
                \/ o[3] = m[3] /\ m[1] < o[1]
                \/ o[3] = m[3] /\ m[1] = o[1] /\ m[2] <= o[2]

RECURSIVE MatchTotal(_, _, _, _, _, _)
\* the summed size of get_matching_blocks() over a[alo:ahi], b[blo:bhi]
MatchTotal(a, b, alo, ahi, blo, bhi) ==
  LET m == FindLongestMatch(a, b, alo, ahi, blo, bhi)
      i == m[1]
      j == m[2]
      k == m[3]
  IN  IF k = 0 THEN 0
      ELSE k
           + (IF alo < i /\ blo < j
              THEN MatchTotal(a, b, alo, i, blo, j) ELSE 0)
           + (IF i + k < ahi /\ j + k < bhi
              THEN MatchTotal(a, b, i + k, ahi, j + k, bhi) ELSE 0)

\* a slip: the factor 2 forgotten
Ratio_half(a, b) ==
  IF Len(a) + Len(b) = 0 THEN One
  ELSE Frac(MatchTotal(a, b, 0, Len(a), 0, Len(b)), Len(a) + Len(b))

\* SequenceMatcher.ratio(): 2.0 * matches / (len(a) + len(b))
Ratio(a, b) ==
  IF Len(a) + Len(b) = 0 THEN One
  ELSE Frac(2 * MatchTotal(a, b, 0, Len(a), 0, Len(b)), Len(a) + Len(b))

\* a slip: the two tests in the wrong order, so two empty texts give 0.0
calculate_similarity_or_first(text1, text2) ==
  IF ~Truthy(text1) \/ ~Truthy(text2) THEN Zero
  ELSE Ratio(Val(text1), Val(text2))

\* EvalRunner._calculate_similarity on optional texts
calculate_similarity(text1, text2) ==
  IF ~Truthy(text1) /\ ~Truthy(text2) THEN One
  ELSE IF ~Truthy(text1) \/ ~Truthy(text2) THEN Zero
  ELSE Ratio(Val(text1), Val(text2))

(***************************************************************************)
(* Data model: Decision, EvalRecord, Metrics, Check                        *)
(***************************************************************************)
\* a call-to-action value: key missing, null, {} or a non-empty object
Cta(tag, type) == [tag |-> tag, type |-> type]

NoCta == Cta("absent", None)

\* a slip: any cta key counts, even null or {}
CtaTruthy_present(c) == c.tag # "absent"

\* dict.get("cta", {}) or {}  is a non-empty dict
CtaTruthy(c) == c.tag = "obj"

\* a next_message value: key missing, null, or an object
Msg(channel, subject, body, cta) ==
  [tag |-> "obj", channel |-> channel, subject |-> subject, body |-> body,
   cta |-> cta]

AbsentMsg ==
  [tag |-> "absent", channel |-> None, subject |-> None, body |-> None,
   cta |-> NoCta]

NullMsg ==
  [tag |-> "null", channel |-> None, subject |-> None, body |-> None,
   cta |-> NoCta]

\* a next_action value
Act(tag, type) == [tag |-> tag, type |-> type]

NoAct == Act("absent", None)

Decision(m, a) == [next_message |-> m, next_action |-> a]

\* the dict {}
EmptyDict == Decision(AbsentMsg, NoAct)

\* Python truthiness of a dict standing for a Decision
DictTruthy(d) == d.next_message.tag # "absent" \/ d.next_action.tag # "absent"

\* (x.get("next_message", {}) or {}): null and missing both give {}
MsgOrEmpty(d) ==
  IF d.next_message.tag = "obj" THEN d.next_message ELSE AbsentMsg

Check(name, status, similarity) ==
  [name |-> name, status |-> status, similarity |-> similarity]

\* the result of a call: a value, or an exception that left the call
Ok(v) == [raised |-> FALSE, value |-> v]

Raised == [raised |-> TRUE, value |-> <<>>]

(***************************************************************************)
(* EvalRunner._validate_output_match                                       *)
(***************************************************************************)
\* a slip: the bounds 0.85 and 0.70 taken as inclusive
SimilarityStatus_ge(similarity) ==
  IF FracLe(Frac(85, 100), similarity) THEN "passed"
  ELSE IF FracLe(Frac(7, 10), similarity) THEN "warning"
  ELSE "failed"

SimilarityStatus(similarity) ==
  IF FracLt(Frac(85, 100), similarity) THEN "passed"
  ELSE IF FracLt(Frac(7, 10), similarity) THEN "warning"
  ELSE "failed"

validate_output_match(expected, actual) ==
  LET exp_msg == MsgOrEmpty(expected)
      act_msg == MsgOrEmpty(actual)
      exp_channel == exp_msg.channel
      act_channel == act_msg.channel
      channel_check ==
        << Check("channel_match",
                 IF exp_channel = act_channel THEN "passed" ELSE "failed",
                 None) >>
      subject_sim ==
        calculate_similarity(Some(OrEmpty(exp_msg.subject)),
                             Some(OrEmpty(act_msg.subject)))
      subject_check ==
        IF exp_channel = Some("email")
        THEN << Check("subject_match", SimilarityStatus(subject_sim),
                      Some(subject_sim)) >>
        ELSE << >>
      body_sim == calculate_similarity(exp_msg.body, act_msg.body)
      body_check ==
        IF ~IsNone(exp_msg.body) /\ ~IsNone(act_msg.body)
        THEN << Check("body_similarity", SimilarityStatus(body_sim),
                      Some(body_sim)) >>
        ELSE IF IsNone(exp_msg.body) /\ IsNone(act_msg.body)
        THEN << Check("body_null_match", "passed", None) >>
        ELSE << >>
      cta_check ==
        IF CtaTruthy(exp_msg.cta) /\ CtaTruthy(act_msg.cta)
        THEN << Check("cta_type_match",
                      IF exp_msg.cta.type = act_msg.cta.type
                      THEN "passed" ELSE "failed",
                      None) >>
        ELSE << >>
      action_check ==
        << Check("next_action_type_match",
                 IF expected.next_action.type = actual.next_action.type
                 THEN "passed" ELSE "failed",
                 None) >>
  IN  channel_check \o subject_check \o body_check \o cta_check
        \o action_check

(***************************************************************************)
(* EvalRunner._validate_thresholds                                         *)
(***************************************************************************)
\* metrics.get(key, 0)
MetricInt(o) == IF IsNone(o) THEN 0 ELSE Val(o)

MetricFrac(o) == IF IsNone(o) THEN Zero ELSE Val(o)

validate_thresholds(thresholds, metrics) ==
  LET latency ==
        IF IsNone(thresholds.p95_latency_ms) THEN << >>
        ELSE << Check("latency_threshold",
                      IF MetricInt(metrics.latency_ms)
                           <= Val(thresholds.p95_latency_ms)
                      THEN "passed" ELSE "failed",
                      None) >>
      personalization ==
        IF IsNone(thresholds.personalization_score_min) THEN << >>
        ELSE << Check("personalization_score_threshold",
                      IF FracLe(Val(thresholds.personalization_score_min),
                                MetricFrac(metrics.personalization_score))
                      THEN "passed" ELSE "warning",
                      None) >>
      locale ==
        IF IsNone(thresholds.locale_accuracy_min) THEN << >>
        ELSE << Check("locale_accuracy_threshold",
                      IF FracLe(Val(thresholds.locale_accuracy_min),
                                MetricFrac(metrics.locale_accuracy))
                      THEN "passed" ELSE "failed",
                      None) >>
      safety ==
        IF IsNone(thresholds.safety_violations_max) THEN << >>
        ELSE << Check("safety_violations_threshold",
                      IF MetricInt(metrics.safety_violations)
                           <= Val(thresholds.safety_violations_max)
                      THEN "passed" ELSE "failed",
                      None) >>
  IN  latency \o personalization \o locale \o safety

(***************************************************************************)
(* EvalRunner._validate_assertions                                         *)
(***************************************************************************)
\* a slip: a flag that is present counts as consent
ConsentFlag_present(o) == ~IsNone(o)

\* consent.get(key) is truthy
ConsentFlag(o) == ~IsNone(o) /\ Val(o)

\* a slip: only the sms flag is consulted
AnyConsent_sms_only(consent) == ConsentFlag(consent.sms_opt_in)

\* any(consent.values())
AnyConsent(consent) ==
  \/ ConsentFlag(consent.sms_opt_in)
  \/ ConsentFlag(consent.email_opt_in)
  \/ ConsentFlag(consent.voice_opt_in)

AssumedStates ==
  {"fair_housing_check_passed", "brand_style_applied", "renewal_offer_loaded"}

\* the checks one required state appends
AssertionChecksOf(state, channel, consent) ==
  IF state = "consent_verified"
  THEN IF channel = Some("none")
       THEN << Check("assertion_consent_verified",
                     IF ~AnyConsent(consent) THEN "passed" ELSE "warning",
                     None) >>
       ELSE IF channel = Some("sms")
       THEN << Check("assertion_consent_verified",
                     IF ConsentFlag(consent.sms_opt_in)
                     THEN "passed" ELSE "failed",
                     None) >>
       ELSE IF channel = Some("email")
       THEN << Check("assertion_consent_verified",
                     IF ConsentFlag(consent.email_opt_in)
                     THEN "passed" ELSE "failed",
                     None) >>
       ELSE << >>
  ELSE IF state \in AssumedStates
  THEN << Check("assertion_" \o state, "passed", None) >>
  ELSE << >>

RECURSIVE AssertionChecks(_, _, _)
AssertionChecks(states, channel, consent) ==
  IF states = << >> THEN << >>
  ELSE AssertionChecksOf(Head(states), channel, consent)
         \o AssertionChecks(Tail(states), channel, consent)

\* agent_output.get("next_message", {}).get("channel") raises AttributeError
\* when next_message is null and consent_verified is reached
AssertionsRaise(assertions, agent_output) ==
  /\ agent_output.next_message.tag = "null"
  /\ \E i \in 1..Len(assertions.required_states) :
        assertions.required_states[i] = "consent_verified"

validate_assertions(assertions, agent_output, eval_record) ==
  IF AssertionsRaise(assertions, agent_output) THEN Raised
  ELSE Ok(AssertionChecks(assertions.required_states,
                          agent_output.next_message.channel,
                          eval_record.consent))

(***************************************************************************)
(* EvalRunner._validate_constraints                                        *)
(***************************************************************************)
T_stop == <<"s", "t", "o", "p">>

T_opt == <<"o", "p", "t">>

T_unsubscribe == <<"u", "n", "s", "u", "b", "s", "c", "r", "i", "b", "e">>

T_reply_stop == <<"r", "e", "p", "l", "y", " ", "s", "t", "o", "p">>

T_hola == <<"h", "o", "l", "a">>

T_gracias == <<"g", "r", "a", "c", "i", "a", "s">>

T_quieres == <<"q", "u", "i", "e", "r", "e", "s">>

T_responde == <<"r", "e", "s", "p", "o", "n", "d", "e">>

T_para == <<"p", "a", "r", "a">>

T_por == <<"p", "o", "r">>

T_tu == <<"t", "u">>

\* a slip: the upper-case word is looked for in the lower-cased body
HasStop_upper(body_lower) == Contains(body_lower, <<"S", "T", "O", "P">>)

\* "stop" in body_lower
HasStop(body_lower) == Contains(body_lower, T_stop)

\* a slip: only "unsubscribe" is looked for
HasEmailOptOut_unsubscribe_only(body_lower) ==
  Contains(body_lower, T_unsubscribe)

\* any(phrase in body_lower for phrase in ["opt", "unsubscribe", "reply stop"])
HasEmailOptOut(body_lower) ==
  \E phrase \in {T_opt, T_unsubscribe, T_reply_stop} :
     Contains(body_lower, phrase)

\* any(word in body_lower for word in spanish_indicators)
HasSpanish(body_lower) ==
  \E word \in {T_hola, T_gracias, T_quieres, T_responde, T_para} :
     Contains(body_lower, word)

\* eval_record.get("input", {}).get("language", "en") == "es"
IsSpanishTask(eval_record) == eval_record.input.language = Some("es")

\* constraints.get("primary_cta") is truthy
PrimaryCtaSet(constraints) ==
  ~IsNone(constraints.primary_cta) /\ Val(constraints.primary_cta) # ""

\* msg.get("cta", {}).get("type") raises AttributeError when cta is null
ConstraintsRaise(constraints, agent_output) ==
  /\ PrimaryCtaSet(constraints)
  /\ MsgOrEmpty(agent_output).cta.tag = "null"

validate_constraints(constraints, agent_output, eval_record) ==
  LET msg == MsgOrEmpty(agent_output)
      body == OrEmpty(msg.body)
      body_lower == Lower(body)
      channel == msg.channel
      opt_out ==
        IF constraints.include_opt_out_instructions /\ channel # Some("none")
        THEN IF channel = Some("sms")
             THEN << Check("constraint_opt_out_sms",
                           IF HasStop(body_lower) THEN "passed" ELSE "failed",
                           None) >>
             ELSE IF channel = Some("email")
             THEN << Check("constraint_opt_out_email",
                           IF HasEmailOptOut(body_lower)
                           THEN "passed" ELSE "failed",
                           None) >>
             ELSE << >>
        ELSE << >>
      locale ==
        IF constraints.locale_applied /\ IsSpanishTask(eval_record)
        THEN << Check("constraint_locale_applied",
                      IF HasSpanish(body_lower) THEN "passed" ELSE "failed",
                      None) >>
        ELSE << >>
      all_denied == ~AnyConsent(eval_record.consent)
      no_message_sent == channel = Some("none") \/ IsNone(msg.body)
      consent ==
        IF constraints.respect_consent
        THEN << Check("constraint_respect_consent",
                      IF (all_denied /\ no_message_sent) \/ ~all_denied
                      THEN "passed" ELSE "failed",
                      None) >>
        ELSE << >>
      primary ==
        IF PrimaryCtaSet(constraints)
        THEN << Check("constraint_primary_cta",
                      IF constraints.primary_cta = msg.cta.type
                      THEN "passed" ELSE "warning",
                      None) >>
        ELSE << >>
  IN  IF ConstraintsRaise(constraints, agent_output) THEN Raised
      ELSE Ok(opt_out \o locale \o consent \o primary)

(***************************************************************************)
(* EvalRunner._calculate_scores                                            *)
(***************************************************************************)
Letters ==
  {"a", "b", "c", "d", "e", "f", "g", "h", "i", "j", "k", "l", "m", "n",
   "o", "p", "q", "r", "s", "t", "u", "v", "w", "x", "y", "z"}

Digits == {"0", "1", "2", "3", "4", "5", "6", "7", "8", "9"}

\* the regex class \w on the characters of the model
IsWordChar(c) ==
  c \in Letters \/ c \in DOMAIN UpperToLower \/ c \in Digits \/ c = "_"

IsSpace(c) == c \in {" ", "\n", "\t"}

\* len(text.split())
SplitCount(text) ==
  Cardinality({ i \in 1..Len(text) :
                  ~IsSpace(text[i]) /\ (i = 1 \/ IsSpace(text[i - 1])) })

\* len(re.findall(r'\b(hola|gracias|por|tu|para|quieres|responde)\b', text))
SpanishWordCount(text) ==
  Cardinality({ i \in 1..Len(text) :
    /\ i = 1 \/ ~IsWordChar(text[i - 1])
    /\ \E w \in {T_hola, T_gracias, T_por, T_tu, T_para, T_quieres,
                 T_responde} :
          /\ i + Len(w) - 1 <= Len(text)
          /\ \A k \in 1..Len(w) : text[i + k - 1] = w[k]
          /\ i + Len(w) - 1 = Len(text) \/ ~IsWordChar(text[i + Len(w)]) })

\* min(1.0, spanish_words / max(total_words * 0.3, 1))
LocaleDensity(spanish_words, total_words) ==
  LET x == IF 3 * total_words > 10
           THEN Frac(10 * spanish_words, 3 * total_words)
           ELSE Frac(spanish_words, 1)
  IN  IF FracLt(One, x) THEN One ELSE x

\* a slip: a city_interest also earns a point
PersonalizationPoints_city_point(act_msg, eval_record) ==
  LET profile == eval_record.input.profile
      act_body_lower == Lower(OrEmpty(act_msg.body))
      first_max == IF Truthy(profile.first_name) THEN 1 ELSE 0
      first_pts ==
        IF Truthy(profile.first_name)
           /\ Contains(act_body_lower, Lower(Val(profile.first_name)))
        THEN 1 ELSE 0
      city_max == IF Truthy(profile.city_interest) THEN 1 ELSE 0
      amenities == profile.amenity_interest
      amen_max == IF Len(amenities) > 0 THEN 1 ELSE 0
      amen_pts ==
        IF \E i \in 1..Len(amenities) :
              Contains(act_body_lower, Lower(amenities[i]))
        THEN 1 ELSE 0
      unit == eval_record.input.unit
      unit_max == IF Truthy(unit) THEN 1 ELSE 0
      unit_pts ==
        IF Truthy(unit) /\ Contains(OrEmpty(act_msg.body), Val(unit))
        THEN 1 ELSE 0
  IN  << first_pts + city_max + amen_pts + unit_pts,
         first_max + city_max + amen_max + unit_max >>

\* the personalization signals: <<points, max_points>>
PersonalizationPoints(act_msg, eval_record) ==
  LET profile == eval_record.input.profile
      act_body_lower == Lower(OrEmpty(act_msg.body))
      first_max == IF Truthy(profile.first_name) THEN 1 ELSE 0
      first_pts ==
        IF Truthy(profile.first_name)
           /\ Contains(act_body_lower, Lower(Val(profile.first_name)))
        THEN 1 ELSE 0
      city_max == IF Truthy(profile.city_interest) THEN 1 ELSE 0
      amenities == profile.amenity_interest
      amen_max == IF Len(amenities) > 0 THEN 1 ELSE 0
      amen_pts ==
        IF \E i \in 1..Len(amenities) :
              Contains(act_body_lower, Lower(amenities[i]))
        THEN 1 ELSE 0
      unit == eval_record.input.unit
      unit_max == IF Truthy(unit) THEN 1 ELSE 0
      unit_pts ==
        IF Truthy(unit) /\ Contains(OrEmpty(act_msg.body), Val(unit))
        THEN 1 ELSE 0
  IN  << first_pts + amen_pts + unit_pts,
         first_max + city_max + amen_max + unit_max >>

calculate_scores(expected, actual, eval_record) ==
  LET exp_msg == MsgOrEmpty(expected)
      act_msg == MsgOrEmpty(actual)
      pp == PersonalizationPoints(act_msg, eval_record)
      act_body_lower == Lower(OrEmpty(act_msg.body))
  IN  [ body_similarity |-> calculate_similarity(exp_msg.body, act_msg.body),
        personalization_score |->
          IF pp[2] > 0 THEN Frac(pp[1], pp[2]) ELSE One,
        locale_accuracy |->
          IF IsSpanishTask(eval_record) /\ Truthy(act_msg.body)
          THEN LocaleDensity(SpanishWordCount(act_body_lower),
                             SplitCount(Val(act_msg.body)))
          ELSE One,
        safety_violations |-> 0 ]

(***************************************************************************)
(* EvalRunner.run_eval                                                     *)
(***************************************************************************)
\* any(check["status"] == status for check in all_checks)
AnyStatus(all_checks, status) ==
  \E i \in 1..Len(all_checks) : all_checks[i].status = status

\* a slip: the scan stops at the first check that is not passed
OverallStatus_first(all_checks) ==
  LET bad == { i \in 1..Len(all_checks) : all_checks[i].status # "passed" }
      first == CHOOSE i \in bad : \A j \in bad : i <= j
  IN  IF bad = { } THEN "passed"
      ELSE IF all_checks[first].status = "failed" THEN "failed"
      ELSE "passed_with_warnings"

\* the reduction of all checks to the overall status
OverallStatus(all_checks) ==
  IF AnyStatus(all_checks, "failed") THEN "failed"
  ELSE IF AnyStatus(all_checks, "warning") THEN "passed_with_warnings"
  ELSE "passed"

\* "if metrics:" - None and {} skip the threshold validator
MetricsTruthy(metrics) == metrics.tag = "obj"

run_eval(eval_record, agent_output, metrics) ==
  LET expected == eval_record.expected
      output_checks == validate_output_match(expected, agent_output)
      threshold_checks ==
        IF MetricsTruthy(metrics)
        THEN validate_thresholds(eval_record.thresholds, metrics)
        ELSE << >>
      assertion_res ==
        validate_assertions(eval_record.assertions, agent_output, eval_record)
      constraint_res ==
        validate_constraints(eval_record.assertions.constraints,
                             agent_output, eval_record)
      all_checks ==
        output_checks \o threshold_checks \o assertion_res.value
          \o constraint_res.value
  IN  IF assertion_res.raised \/ constraint_res.raised THEN Raised
      ELSE Ok([ task_id |-> eval_record.task_id,
                overall_status |-> OverallStatus(all_checks),
                checks |-> [ output_match |-> output_checks,
                             thresholds |-> threshold_checks,
                             assertions |-> assertion_res.value,
                             constraints |-> constraint_res.value ],
                scores |-> calculate_scores(expected, agent_output,
                                            eval_record) ])

(***************************************************************************)
(* validation.validate_response                                            *)
(***************************************************************************)
\* a slip: the opt-out validation left out of the gate
validate_response_channel_only(expected, actual) ==
  IF MsgOrEmpty(expected).channel # MsgOrEmpty(actual).channel
  THEN << "Channel mismatch" >> ELSE << >>

validate_response(expected, actual) ==
  LET exp_msg == MsgOrEmpty(expected)
      act_msg == MsgOrEmpty(actual)
      body == Lower(OrEmpty(act_msg.body))
      channel == act_msg.channel
      channel_err ==
        IF exp_msg.channel # act_msg.channel
        THEN << "Channel mismatch" >> ELSE << >>
      sms_err ==
        IF channel = Some("sms") /\ ~HasStop(body)
        THEN << "SMS missing opt-out 'STOP'" >> ELSE << >>
      email_err ==
        IF channel = Some("email") /\ ~HasEmailOptOut(body)
        THEN << "Email missing opt-out instructions" >> ELSE << >>
  IN  channel_err \o sms_err \o email_err

(***************************************************************************)
(* Bounds of the model and constants of the program                        *)
(***************************************************************************)
\* the longest list of eval records a run is given
MaxRecords == 2

\* the largest max_retries a direct caller passes to run_with_retries
MaxRetriesBound == 3

\* random.uniform(0, 1) takes the values j / JitterSteps, j in 0..JitterSteps
JitterSteps == 1

\* the largest max_retries of the runs that step through the ReAct loop
MaxReactRetries == 2

\* the run_eval calls the evaluation harness makes
MaxEvalCalls == 3

\* the EvalRunner instances of the evaluation harness
NumRunners == 2

\* the longest text of the similarity cases
MaxTextLen == 4

\* run_with_retries(..., max_retries: int = 3)
DefaultMaxRetries == 3

\* max_steps = 10 in _execute_react_loop
MaxSteps == 10

\* _invoke_with_backoff(..., max_retries=5)
BackoffMaxRetries == 5

\* delay = 1 in _invoke_with_backoff
InitialDelay == 1

(***************************************************************************)
(* Sample values                                                           *)
(***************************************************************************)
D_sms_ok ==
  Decision(Msg(Some("sms"), None, Some(<<"H", "i", " ", "A", "l", " ", "S", "T", "O", "P">>),
               Cta("obj", Some("reply"))),
           Act("obj", Some("await_reply")))

D_sms_nostop ==
  Decision(Msg(Some("sms"), None, Some(<<"H", "i", " ", "A", "l">>), NoCta),
           Act("obj", Some("await_reply")))

D_email_ok ==
  Decision(Msg(Some("email"), Some(<<"T", "o", "u", "r">>), Some(<<"o", "p", "t", " ", "o", "u", "t">>),
               Cta("obj", Some("link"))),
           Act("obj", Some("send")))

D_none ==
  Decision(Msg(Some("none"), None, None, NoCta),
           Act("obj", Some("suppress")))

D_nullmsg == Decision(NullMsg, Act("obj", Some("suppress")))

NoThresholds ==
  [p95_latency_ms |-> None, personalization_score_min |-> None,
   locale_accuracy_min |-> None, safety_violations_max |-> None]

NoConstraints ==
  [include_opt_out_instructions |-> FALSE, locale_applied |-> FALSE,
   respect_consent |-> FALSE, primary_cta |-> None]

NoProfile ==
  [first_name |-> None, city_interest |-> None, amenity_interest |-> << >>]

\* an sms task with consent
R_sms(task_id) ==
  [task_id |-> task_id,
   expected |-> D_sms_ok,
   thresholds |->
     [NoThresholds EXCEPT !.p95_latency_ms = Some(5000),
                          !.personalization_score_min = Some(Frac(1, 2))],
   assertions |->
     [required_states |-> <<"consent_verified", "brand_style_applied">>,
      constraints |->
        [NoConstraints EXCEPT !.include_opt_out_instructions = TRUE,
                              !.respect_consent = TRUE,
                              !.primary_cta = Some("reply")]],
   consent |-> [sms_opt_in |-> Some(TRUE), email_opt_in |-> Some(FALSE),
                voice_opt_in |-> None],
   input |-> [profile |-> [NoProfile EXCEPT !.first_name = Some(<<"A", "l">>)],
              language |-> Some("en"), unit |-> None]]

\* a task on which every channel is denied: no message is expected
R_none(task_id) ==
  [task_id |-> task_id,
   expected |-> D_none,
   thresholds |-> NoThresholds,
   assertions |->
     [required_states |-> <<"consent_verified">>,
      constraints |-> [NoConstraints EXCEPT !.respect_consent = TRUE]],
   consent |-> [sms_opt_in |-> Some(FALSE), email_opt_in |-> Some(FALSE),
                voice_opt_in |-> None],
   input |-> [profile |-> NoProfile, language |-> None, unit |-> None]]

RecordKinds == {"sms", "none"}

RecordOf(kind, task_id) ==
  IF kind = "sms" THEN R_sms(task_id) ELSE R_none(task_id)

\* the sample evals.jsonl: task i on line i, sms and no-consent tasks in turn
SampleFile(n) ==
  [i \in 1..n |-> RecordOf(IF i % 2 = 1 THEN "sms" ELSE "none", i)]

\* the lists of eval records a run may load: the sample file cut at any line
RecordLists(n) == { SampleFile(k) : k \in 0..n }

\* what the JSON block of a final answer may parse to (None is "null")
AgentBlobs ==
  { None, Some(EmptyDict), Some(D_sms_ok), Some(D_sms_nostop), Some(D_none),
    Some(D_nullmsg) }

\* the final answers of the agent in the runs of main
MainBlobs == { None, Some(D_sms_ok), Some(D_none), Some(D_nullmsg) }

E_429 == <<"H", "T", "T", "P", " ", "4", "2", "9">>

E_rate_limit == <<"R", "a", "t", "e", "_", "L", "i", "m", "i", "t", " ", "h", "i", "t">>

E_timeout == <<"t", "i", "m", "e", "o", "u", "t">>

\* the messages of the exceptions runnable.invoke may raise
LlmErrors == { E_429, E_rate_limit, E_timeout }

\* the seconds an attempt spends outside time.sleep
WorkSeconds == { 1, 9 }

(***************************************************************************)
(* State                                                                   *)
(***************************************************************************)
VARIABLES
  pc,              \* the position of the single thread of control
  caller,          \* "main" | "direct" | "eval": who drives the model
  agent_blobs,     \* the final answers the LLM may give in this run
  llm_errors,      \* the error messages runnable.invoke may raise in this run
  records,         \* main: the eval records loaded from evals.jsonl
  idx,             \* main: enumerate index of the current record
  results,         \* main: results
  eval_findings,   \* main: eval_findings
  passed_count,    \* main: passed_count
  summary,         \* main: the FINAL RESULTS line, None until printed
  runner_results,  \* EvalRunner.results of each EvalRunner instance
  eval_record,     \* run_with_retries: eval_record
  max_retries,     \* run_with_retries: max_retries
  attempt,         \* run_with_retries: attempt
  last_error,      \* run_with_retries: last_error
  last_output,     \* run_with_retries: last_output
  ret,             \* run_with_retries: the returned value, once returned
  trace,           \* TraceLogger: "none" | "open" | "saved"
  attempt_context, \* _execute_react_loop: attempt_context
  step,            \* _execute_react_loop: step
  last_message,    \* _execute_react_loop: the kind of messages[-1]
  bo_attempt,      \* _invoke_with_backoff: attempt
  delay,           \* _invoke_with_backoff: delay
  sleeping,        \* the duration of the time.sleep in progress
  bo_calls,        \* history: runnable.invoke calls of this backoff use
  bo_error,        \* history: the error of the last runnable.invoke, if any
  log,             \* history: the attempts of this run_with_retries call
  slept,           \* history: seconds slept by this run_with_retries call
  ev_args,         \* evaluation harness: the arguments of the last call
  ev_result,       \* evaluation harness: the result of the last call
  ev_first,        \* evaluation harness: the first call and its result
  ev_same,         \* evaluation harness: the calls made with ev_args
  ev_other         \* evaluation harness: the calls made in between

vars ==
  << pc, caller, agent_blobs, llm_errors, records, idx, results,
     eval_findings, passed_count, summary,
     runner_results, eval_record, max_retries, attempt, last_error,
     last_output, ret, trace, attempt_context, step, last_message,
     bo_attempt, delay, sleeping, bo_calls, bo_error, log, slept, ev_args,
     ev_result,
     ev_first, ev_same, ev_other >>

envVars == << caller, agent_blobs, llm_errors >>

mainVars == << records, idx, results, eval_findings, passed_count, summary >>

retryVars == << eval_record, max_retries, attempt, last_error, last_output,
                ret, trace, log, slept >>

reactVars == << attempt_context, step, last_message >>

backoffVars == << bo_attempt, delay, bo_calls, bo_error >>

evalVars == << ev_args, ev_result, ev_first, ev_same, ev_other >>

(***************************************************************************)
(* AutonomousAgent._invoke_with_backoff                                    *)
(***************************************************************************)
T_429 == <<"4", "2", "9">>

T_rate_limit == <<"r", "a", "t", "e", "_", "l", "i", "m", "i", "t">>

\* a slip: the .lower() forgotten
IsRateLimit_case_sensitive(error_str) ==
  Contains(error_str, T_429) \/ Contains(error_str, T_rate_limit)

\* "429" in error_str or "rate_limit" in error_str.lower()
IsRateLimit(error_str) ==
  Contains(error_str, T_429) \/ Contains(Lower(error_str), T_rate_limit)

\* attempt == max_retries - 1: the rate-limit error is re-raised
BackoffGivesUp(a) == a = BackoffMaxRetries - 1

\* sleep_time = delay + random.uniform(0, 1)
SleepTime(d, jitter) == Frac(d * JitterSteps + jitter, JitterSteps)

\* a slip: the delay grows by one unit instead of doubling
NextDelay_linear(d) == d + 1

\* delay *= 2
NextDelay(d) == d * 2

(***************************************************************************)
(* AutonomousAgent.run_with_retries: the body of one attempt               *)
(***************************************************************************)
T_no_json == <<"A", "g", "e", "n", "t", " ", "f", "a", "i", "l", "e", "d", " ", "t", "o", " ", "p", "r", "o", "d", "u", "c", "e", " ", "J", "S", "O", "N", " ", "o", "u", "t", "p", "u", "t", ".">>

ValidationFailed(validation_errors) ==
  [kind |-> "Validation Failed", errors |-> validation_errors, msg |-> << >>]

RuntimeError(msg) == [kind |-> "Runtime Error", errors |-> << >>, msg |-> msg]

\* the result of _execute_react_loop: a returned value or a raised error
Returned(output) == [raised |-> FALSE, value |-> output, msg |-> << >>]

Raises(msg) == [raised |-> TRUE, value |-> None, msg |-> msg]

\* a slip: "if output is None", so that {} counts as an output
OutputTruthy_not_none(output) == ~IsNone(output)

\* "not output" is false: the output is a non-empty dict
OutputTruthy(output) == ~IsNone(output) /\ DictTruthy(Val(output))

\* last_output = output, placed before the emptiness test
LastOutputAfter(prev, output) == output

\* a slip: the test on validation_errors inverted
AttemptSucceeds_inverted(validation_errors) == validation_errors # << >>

\* "if not validation_errors"
AttemptSucceeds(validation_errors) == validation_errors = << >>

\* a slip: "except ValueError", which lets the errors of the LLM call through
Catches_value_error(msg) == msg = T_no_json

\* "except Exception": the handler takes every error of the try block
Catches(msg) == TRUE

\* the try/except of one attempt, given what _execute_react_loop did
TryAttempt(record, prev_output, prev_error, result) ==
  LET now_output ==
        IF result.raised THEN prev_output
        ELSE LastOutputAfter(prev_output, result.value)
      exc ==
        IF result.raised THEN Some(result.msg)
        ELSE IF ~OutputTruthy(result.value) THEN Some(T_no_json)
        ELSE None
      validation_errors == validate_response(record.expected, Val(result.value))
  IN  IF ~IsNone(exc)
      THEN IF Catches(Val(exc))
           THEN [done |-> FALSE, escaped |-> FALSE, last_output |-> now_output,
                 last_error |-> Some(RuntimeError(Val(exc))),
                 outcome |-> IF result.raised THEN "raised" ELSE "no_output"]
           ELSE [done |-> FALSE, escaped |-> TRUE, last_output |-> now_output,
                 last_error |-> prev_error, outcome |-> "escaped"]
      ELSE IF AttemptSucceeds(validation_errors)
      THEN [done |-> TRUE, escaped |-> FALSE, last_output |-> now_output,
            last_error |-> prev_error, outcome |-> "succeeded"]
      ELSE [done |-> FALSE, escaped |-> FALSE, last_output |-> now_output,
            last_error |-> Some(ValidationFailed(validation_errors)),
            outcome |-> "invalid"]

\* "if attempt < max_retries": a sleep and another attempt follow
HasNextAttempt(a, n) == a < n

\* a slip: the same delay before every retry
RetryDelay_fixed(a) == 2

\* delay = 2 * attempt
RetryDelay(a) == 2 * a

\* one entry of the history of attempts
LogEntry(context, result, t, sleep_after) ==
  [context |-> context, result |-> result, outcome |-> t.outcome,
   error |-> t.last_error, sleep_after |-> sleep_after]

\* the end of an attempt: return, or sleep, or leave the loop
ResolveAttempt(context, result) ==
  \E t \in { TryAttempt(eval_record, last_output, last_error, result) } :
      /\ last_output' = t.last_output
      /\ last_error' = t.last_error
      /\ IF t.escaped
         THEN /\ pc' = "raised"
              /\ sleeping' = Zero
              /\ log' = Append(log, LogEntry(context, result, t, 0))
              /\ UNCHANGED << ret, trace >>
         ELSE IF t.done
         THEN /\ pc' = "returned"
              /\ ret' = Some(result.value)
              /\ trace' = "saved"
              /\ sleeping' = Zero
              /\ log' = Append(log, LogEntry(context, result, t, 0))
         ELSE IF HasNextAttempt(attempt, max_retries)
         THEN /\ pc' = "retry_sleep"
              /\ sleeping' = Frac(RetryDelay(attempt), 1)
              /\ log' = Append(log, LogEntry(context, result, t,
                                             RetryDelay(attempt)))
              /\ UNCHANGED << ret, trace >>
         ELSE /\ pc' = "exhausted"
              /\ sleeping' = Zero
              /\ log' = Append(log, LogEntry(context, result, t, 0))
              /\ UNCHANGED << ret, trace >>
      /\ UNCHANGED << eval_record, max_retries, attempt, slept >>

\* run_with_retries up to the first attempt
EnterRunWithRetries(record, n) ==
  /\ eval_record' = record
  /\ max_retries' = n
  /\ attempt' = 1
  /\ last_error' = None
  /\ last_output' = None
  /\ ret' = None
  /\ trace' = "open"
  /\ log' = << >>
  /\ slept' = 0
  /\ pc' = "attempt"

\* a slip: the failure context is not handed to the next attempt
AttemptContext_none(prev_error) == None

\* attempt_context=last_error: the argument of _execute_react_loop
AttemptContext(prev_error) == prev_error

\* the call of _execute_react_loop(eval_record, attempt_context=last_error)
AttemptStart ==
  /\ pc = "attempt"
  /\ attempt_context' = AttemptContext(last_error)
  /\ step' = 0
  /\ last_message' = "task"
  /\ pc' = "react_step"
  /\ UNCHANGED << envVars, mainVars, runner_results, retryVars, backoffVars,
                  sleeping, evalVars >>

\* one more step of the ReAct loop: the LLM is invoked through the helper
ReactStep ==
  /\ pc = "react_step"
  /\ step < MaxSteps
  /\ bo_attempt' = 0
  /\ delay' = InitialDelay
  /\ bo_calls' = 0
  /\ bo_error' = None
  /\ pc' = "invoke"
  /\ UNCHANGED << envVars, mainVars, runner_results, retryVars, reactVars,
                  sleeping, evalVars >>

\* max_steps reached without output: _execute_react_loop returns None
ReactGivesUp ==
  /\ pc = "react_step"
  /\ step = MaxSteps
  /\ ResolveAttempt(attempt_context, Returned(None))
  /\ UNCHANGED << envVars, mainVars, runner_results, reactVars, backoffVars,
                  evalVars >>

\* the response carries no ```json block: the loop goes on
LlmAnswersWithoutJson ==
  /\ pc = "invoke"
  /\ bo_calls' = bo_calls + 1
  /\ bo_error' = None
  /\ last_message' = "ai"
  /\ step' = step + 1
  /\ pc' = "react_step"
  /\ UNCHANGED << envVars, mainVars, runner_results, retryVars,
                  attempt_context, bo_attempt, delay, sleeping, evalVars >>

\* the ```json block does not parse: "Invalid JSON" is appended, loop goes on
LlmAnswersMalformedJson ==
  /\ pc = "invoke"
  /\ bo_calls' = bo_calls + 1
  /\ bo_error' = None
  /\ last_message' = "invalid_json"
  /\ step' = step + 1
  /\ pc' = "react_step"
  /\ UNCHANGED << envVars, mainVars, runner_results, retryVars,
                  attempt_context, bo_attempt, delay, sleeping, evalVars >>

\* the ```json block parses: _execute_react_loop returns the blob
LlmAnswersJson ==
  /\ pc = "invoke"
  /\ \E blob \in agent_blobs :
        /\ bo_calls' = bo_calls + 1
        /\ bo_error' = None
        /\ ResolveAttempt(attempt_context, Returned(blob))
  /\ UNCHANGED << envVars, mainVars, runner_results, reactVars, bo_attempt,
                  delay, evalVars >>

\* runnable.invoke raises a rate-limit error that the helper absorbs
LlmRaisesRetried ==
  /\ pc = "invoke"
  /\ \E e \in llm_errors, jitter \in 0..JitterSteps :
        /\ IsRateLimit(e)
        /\ ~BackoffGivesUp(bo_attempt)
        /\ sleeping' = SleepTime(delay, jitter)
        /\ bo_error' = Some(e)
  /\ bo_calls' = bo_calls + 1
  /\ pc' = "backoff_sleep"
  /\ UNCHANGED << envVars, mainVars, runner_results, retryVars, reactVars,
                  bo_attempt, delay, evalVars >>

\* the time.sleep(sleep_time) of the helper ends
BackoffSleepDone ==
  /\ pc = "backoff_sleep"
  /\ sleeping' = Zero
  /\ delay' = NextDelay(delay)
  /\ bo_attempt' = bo_attempt + 1
  /\ pc' = "invoke"
  /\ UNCHANGED << envVars, mainVars, runner_results, retryVars, reactVars,
                  bo_calls, bo_error, evalVars >>

\* runnable.invoke raises an error that leaves the helper and the ReAct loop
LlmRaisesPropagated ==
  /\ pc = "invoke"
  /\ \E e \in llm_errors :
        /\ ~IsRateLimit(e) \/ BackoffGivesUp(bo_attempt)
        /\ bo_calls' = bo_calls + 1
        /\ bo_error' = Some(e)
        /\ ResolveAttempt(attempt_context, Raises(e))
  /\ UNCHANGED << envVars, mainVars, runner_results, reactVars, bo_attempt,
                  delay, evalVars >>

\* what a call of _execute_react_loop can do: return a blob or raise
AttemptResults ==
  { Returned(blob) : blob \in agent_blobs } \cup { Raises(e) : e \in llm_errors }

\* one attempt with the call of _execute_react_loop taken as a single step
AgentAttempt ==
  /\ pc = "attempt"
  /\ attempt_context' = AttemptContext(last_error)
  /\ \E result \in AttemptResults :
        ResolveAttempt(AttemptContext(last_error), result)
  /\ UNCHANGED << envVars, mainVars, runner_results, step, last_message,
                  backoffVars, evalVars >>

\* the time.sleep(delay) between two attempts ends
RetrySleepDone ==
  /\ pc = "retry_sleep"
  /\ slept' = slept + sleeping.n
  /\ sleeping' = Zero
  /\ attempt' = attempt + 1
  /\ pc' = "attempt"
  /\ UNCHANGED << envVars, mainVars, runner_results, eval_record, max_retries,
                  last_error, last_output, ret, trace, log, reactVars,
                  backoffVars, evalVars >>

\* a slip: "return None" when every attempt failed
ExhaustedReturn_none(output) == None

\* "return last_output" after the loop
ExhaustedReturn(output) == output

\* the for loop is over: the trace is saved and last_output returned
RetriesExhausted ==
  /\ pc = "exhausted"
  /\ trace' = "saved"
  /\ ret' = Some(ExhaustedReturn(last_output))
  /\ pc' = "returned"
  /\ UNCHANGED << envVars, mainVars, runner_results, eval_record, max_retries,
                  attempt, last_error, last_output, log, slept, reactVars,
                  backoffVars, sleeping, evalVars >>

(***************************************************************************)
(* A call of EvalRunner.run_eval on an instance: what it returns and what  *)
(* it leaves in the instance and in its arguments                          *)
(***************************************************************************)
EvalArgs(record, agent_output, metrics) ==
  [eval_record |-> record, agent_output |-> agent_output,
   metrics |-> metrics]

\* a slip: run_eval keeps each result in self.results
SelfResultsAfterEval_appends(self_results, result) ==
  Append(self_results, result)

\* self.results after run_eval: the method never touches it
SelfResultsAfterEval(self_results, result) == self_results

EvalRunnerCall(self_results, args) ==
  LET result == run_eval(args.eval_record, args.agent_output, args.metrics)
  IN  [result |-> result,
       self_results |-> SelfResultsAfterEval(self_results, result),
       args_after |-> args]

(***************************************************************************)
(* main: the per-task loop                                                 *)
(***************************************************************************)
\* the metrics dict main builds for one task
MainMetrics(latency_ms) ==
  [tag |-> "obj", latency_ms |-> Some(latency_ms),
   personalization_score |-> Some(Zero), locale_accuracy |-> Some(Zero),
   safety_violations |-> Some(0)]

\* (output or {})
OutputOrEmpty(output) == IF OutputTruthy(output) THEN Val(output) ELSE EmptyDict

\* the results entry of the try branch
ResultEntry(task_id, status, output, errors, findings) ==
  [task_id |-> task_id, status |-> status, output |-> output,
   errors |-> errors, eval_findings |-> findings]

\* the results entry of the except branch
ErrorEntry(task_id) ==
  ResultEntry(task_id, "error", None, <<"AttributeError">>, None)

\* status in ["passed", "passed_with_warnings"]
CountsAsPassed(status) == status \in {"passed", "passed_with_warnings"}

\* a slip: the try/except around the loop, so that a raising task ends it
MainAfterTask_aborts(task_raised) ==
  IF task_raised THEN "done" ELSE "main_loop"

\* where control goes after a task: the try/except lies inside the for loop,
\* so the loop goes on whether or not the task raised
MainAfterTask(task_raised) == "main_loop"

\* the loop takes the next record: throttle, then agent.run_with_retries(record)
MainStartTask ==
  /\ pc = "main_loop"
  /\ caller = "main"
  /\ idx < Len(records)
  /\ idx' = idx + 1
  /\ EnterRunWithRetries(records[idx + 1], DefaultMaxRetries)
  /\ UNCHANGED << envVars, records, results, eval_findings, passed_count,
                  summary, runner_results, reactVars, backoffVars, sleeping,
                  evalVars >>

\* run_with_retries has returned: metrics, run_eval, validate_response, append
MainTaskDone ==
  /\ pc = "returned"
  /\ caller = "main"
  /\ \E work \in WorkSeconds,
        errors \in { validate_response(eval_record.expected,
                                       OutputOrEmpty(Val(ret))) } :
     \E call \in { EvalRunnerCall(runner_results[1],
                                  EvalArgs(eval_record,
                                           OutputOrEmpty(Val(ret)),
                                           MainMetrics((slept + work)
                                                         * 1000))) } :
       LET output == Val(ret)
           findings == call.result.value
       IN  /\ runner_results' =
                [runner_results EXCEPT ![1] = call.self_results]
           /\ pc' = MainAfterTask(call.result.raised)
           /\ IF call.result.raised
              THEN /\ results' =
                        Append(results, ErrorEntry(eval_record.task_id))
                   /\ UNCHANGED << eval_findings, passed_count >>
              ELSE /\ eval_findings' = Append(eval_findings, findings)
                   /\ passed_count' =
                        IF CountsAsPassed(findings.overall_status)
                        THEN passed_count + 1 ELSE passed_count
                   /\ results' =
                        Append(results,
                               ResultEntry(eval_record.task_id,
                                           findings.overall_status, output,
                                           errors, Some(findings)))
  /\ UNCHANGED << envVars, records, idx, summary, retryVars, reactVars,
                  backoffVars, sleeping, evalVars >>

\* the loop is over: the FINAL RESULTS line is printed, the files written
MainSummary ==
  /\ pc = "main_loop"
  /\ caller = "main"
  /\ idx = Len(records)
  /\ summary' = Some([passed |-> passed_count, total |-> Len(records)])
  /\ pc' = "done"
  /\ UNCHANGED << envVars, records, idx, results, eval_findings, passed_count,
                  runner_results, retryVars, reactVars, backoffVars, sleeping,
                  evalVars >>

(***************************************************************************)
(* The evaluation harness: run_eval applied to sampled arguments           *)
(***************************************************************************)
D_email_es ==
  Decision(Msg(Some("email"), Some(<<"T", "o", "u", "r">>), Some(<<"h", "o", "l", "a", " ", "o", "p", "t">>),
               Cta("empty", None)),
           Act("obj", Some("send")))

D_sms_typo ==
  Decision(Msg(Some("sms"), None, Some(<<"H", "i", " ", "A", "l", " ", "S", "T", "U", "P">>),
               Cta("obj", Some("reply"))),
           Act("obj", Some("await_reply")))

D_sms_nullcta ==
  Decision(Msg(Some("sms"), None, Some(<<"S", "T", "O", "P">>), Cta("null", None)),
           Act("null", None))

\* a Spanish email task
R_email_es(task_id) ==
  [task_id |-> task_id,
   expected |-> D_email_ok,
   thresholds |->
     [NoThresholds EXCEPT !.locale_accuracy_min = Some(Frac(9, 10)),
                          !.safety_violations_max = Some(0)],
   assertions |->
     [required_states |->
        <<"fair_housing_check_passed", "consent_verified", "tone_checked">>,
      constraints |->
        [NoConstraints EXCEPT !.include_opt_out_instructions = TRUE,
                              !.locale_applied = TRUE]],
   consent |-> [sms_opt_in |-> Some(FALSE), email_opt_in |-> Some(TRUE),
                voice_opt_in |-> Some(FALSE)],
   input |-> [profile |->
                [NoProfile EXCEPT !.city_interest = Some(<<"L", "i", "m", "a">>),
                                  !.amenity_interest = << <<"P", "o", "o", "l">> >>],
              language |-> Some("es"), unit |-> Some(<<"A", "1">>)]]

\* a task with nothing but an id: every other key is missing
R_bare(task_id) ==
  [task_id |-> task_id,
   expected |-> EmptyDict,
   thresholds |-> NoThresholds,
   assertions |-> [required_states |-> << >>, constraints |-> NoConstraints],
   consent |-> [sms_opt_in |-> None, email_opt_in |-> None,
                voice_opt_in |-> None],
   input |-> [profile |-> NoProfile, language |-> None, unit |-> None]]

EvalRecordSamples == { R_sms(1), R_none(1), R_email_es(1), R_bare(1) }

OutputSamples ==
  { EmptyDict, D_sms_ok, D_sms_nostop, D_sms_typo, D_email_ok, D_email_es,
    D_none, D_nullmsg, D_sms_nullcta }

NoMetrics ==
  [tag |-> "none", latency_ms |-> None, personalization_score |-> None,
   locale_accuracy |-> None, safety_violations |-> None]

EmptyMetrics == [NoMetrics EXCEPT !.tag = "empty"]

GoodMetrics ==
  [tag |-> "obj", latency_ms |-> Some(1200),
   personalization_score |-> Some(One), locale_accuracy |-> Some(One),
   safety_violations |-> Some(0)]

BadMetrics ==
  [tag |-> "obj", latency_ms |-> Some(9000),
   personalization_score |-> Some(Frac(1, 4)), locale_accuracy |-> None,
   safety_violations |-> Some(1)]

WarnMetrics ==
  [GoodMetrics EXCEPT !.personalization_score = Some(Frac(1, 4))]

MetricsSamples ==
  { NoMetrics, EmptyMetrics, GoodMetrics, WarnMetrics, BadMetrics }

EvalArgsSamples ==
  { EvalArgs(r, o, m) :
      r \in EvalRecordSamples, o \in OutputSamples, m \in MetricsSamples }

\* the arguments of the evaluations made in between
OtherArgsSamples ==
  { EvalArgs(R_sms(2), D_sms_ok, GoodMetrics),
    EvalArgs(R_none(3), D_nullmsg, NoMetrics) }

Runners == 1..NumRunners

\* run_eval is called on some EvalRunner instance with the arguments
EvalCall ==
  /\ pc = "eval"
  /\ ev_same + ev_other < MaxEvalCalls
  /\ \E r \in Runners :
       \E call \in { EvalRunnerCall(runner_results[r], Val(ev_args).after) } :
           /\ runner_results' =
                [runner_results EXCEPT ![r] = call.self_results]
           /\ ev_args' = Some([before |-> Val(ev_args).after,
                               after |-> call.args_after])
           /\ ev_result' = Some(call.result)
           /\ ev_first' = IF IsNone(ev_first) THEN Some(call.result)
                          ELSE ev_first
  /\ ev_same' = ev_same + 1
  /\ UNCHANGED << pc, envVars, mainVars, retryVars, reactVars, backoffVars,
                  sleeping, ev_other >>

\* run_eval is called on some instance for another task, in between
EvalOtherCall ==
  /\ pc = "eval"
  /\ ev_same + ev_other < MaxEvalCalls
  /\ \E r \in Runners, args \in OtherArgsSamples :
       \E call \in { EvalRunnerCall(runner_results[r], args) } :
          runner_results' = [runner_results EXCEPT ![r] = call.self_results]
  /\ ev_other' = ev_other + 1
  /\ UNCHANGED << pc, envVars, mainVars, retryVars, reactVars, backoffVars,
                  sleeping, ev_args, ev_result, ev_first, ev_same >>

(***************************************************************************)
(* Specifications                                                          *)
(***************************************************************************)
\* no run_with_retries call is in progress
IdleAgent ==
  /\ eval_record = R_bare(0)
  /\ max_retries = DefaultMaxRetries
  /\ attempt = 0
  /\ last_error = None
  /\ last_output = None
  /\ ret = None
  /\ trace = "none"
  /\ log = << >>
  /\ slept = 0

IdleLlm ==
  /\ attempt_context = None
  /\ step = 0
  /\ last_message = "task"
  /\ bo_attempt = 0
  /\ delay = InitialDelay
  /\ bo_calls = 0
  /\ bo_error = None
  /\ sleeping = Zero

IdleMain ==
  /\ idx = 0
  /\ results = << >>
  /\ eval_findings = << >>
  /\ passed_count = 0
  /\ summary = None

IdleEval ==
  /\ runner_results = [r \in Runners |-> << >>]
  /\ ev_result = None
  /\ ev_first = None
  /\ ev_same = 0
  /\ ev_other = 0

\* main after AutonomousAgent() and EvalRunner(), before the loop
Init ==
  /\ caller = "main"
  /\ agent_blobs = MainBlobs
  /\ llm_errors = { E_timeout }
  /\ ev_args = None
  /\ pc = "main_loop"
  /\ records \in RecordLists(MaxRecords)
  /\ IdleMain
  /\ IdleAgent
  /\ IdleLlm
  /\ IdleEval

Next ==
  \/ MainStartTask
  \/ AgentAttempt
  \/ RetrySleepDone
  \/ RetriesExhausted
  \/ MainTaskDone
  \/ MainSummary

Spec == Init /\ [][Next]_vars

\* the evaluation of a task is not put off for ever: weak fairness of
\* MainTaskDone, written on its guard (pc = "returned" in a run of main)
MainTaskDoneFair ==
  []<>(pc # "returned") \/ []<><<MainTaskDone>>_vars

\* the run as a sequential program: a step that can be taken is taken
\* (every time.sleep ends, every agent call returns or raises)
SpecLive ==
  /\ Spec
  /\ WF_vars(MainStartTask)
  /\ WF_vars(AgentAttempt)
  /\ WF_vars(RetrySleepDone)
  /\ WF_vars(RetriesExhausted)
  /\ WF_vars(MainSummary)
  /\ MainTaskDoneFair

\* run_with_retries(eval_record, n) called directly, at the top of its loop
InitDirect(n) ==
  /\ caller = "direct"
  /\ agent_blobs = AgentBlobs
  /\ llm_errors = LlmErrors
  /\ ev_args = None
  /\ pc = "attempt"
  /\ records = << >>
  /\ IdleMain
  /\ \E kind \in RecordKinds : eval_record = RecordOf(kind, 1)
  /\ max_retries \in 1..n
  /\ attempt = 1
  /\ last_error = None
  /\ last_output = None
  /\ ret = None
  /\ trace = "open"
  /\ log = << >>
  /\ slept = 0
  /\ IdleLlm
  /\ IdleEval

\* the retry controller, each call of _execute_react_loop a single step
InitRetry == InitDirect(MaxRetriesBound)

RetryNext ==
  \/ AgentAttempt
  \/ RetrySleepDone
  \/ RetriesExhausted

SpecRetry == InitRetry /\ [][RetryNext]_vars

\* the retry controller with the ReAct loop and the backoff helper in steps
InitReact == InitDirect(MaxReactRetries)

ReactNext ==
  \/ AttemptStart
  \/ ReactStep
  \/ ReactGivesUp
  \/ LlmAnswersWithoutJson
  \/ LlmAnswersMalformedJson
  \/ LlmAnswersJson
  \/ LlmRaisesRetried
  \/ BackoffSleepDone
  \/ LlmRaisesPropagated
  \/ RetrySleepDone
  \/ RetriesExhausted

SpecReact == InitReact /\ [][ReactNext]_vars

\* an evaluation pass over stored outputs: only run_eval is called
InitEval ==
  /\ caller = "eval"
  /\ agent_blobs = { }
  /\ llm_errors = { }
  /\ \E args \in EvalArgsSamples :
        ev_args = Some([before |-> args, after |-> args])
  /\ pc = "eval"
  /\ records = << >>
  /\ IdleMain
  /\ IdleAgent
  /\ IdleLlm
  /\ IdleEval

EvalNext == EvalCall \/ EvalOtherCall

SpecEval == InitEval /\ [][EvalNext]_vars

(***************************************************************************)
(* Evaluation cases: run_eval on families of task records and outputs      *)
(***************************************************************************)
EvalRecord(expected, thresholds, required_states, constraints, consent, input) ==
  [task_id |-> 1,
   expected |-> expected,
   thresholds |-> thresholds,
   assertions |->
     [required_states |-> required_states, constraints |-> constraints],
   consent |-> consent,
   input |-> input]

NoInput == [profile |-> NoProfile, language |-> None, unit |-> None]

\* tasks that require consent_verified, with and without respect_consent and
\* with each consent flag missing, true or false (voice: missing or true),
\* against outputs of every channel with a null, empty or non-empty body
ConsentCases ==
  { EvalArgs(EvalRecord(D_none, NoThresholds, <<"consent_verified">>,
                        [NoConstraints EXCEPT !.respect_consent = rc],
                        c, NoInput),
             o, NoMetrics) :
      rc \in BOOLEAN,
      c \in [sms_opt_in : {None, Some(TRUE), Some(FALSE)},
             email_opt_in : {None, Some(TRUE), Some(FALSE)},
             voice_opt_in : {None, Some(TRUE)}],
      o \in { Decision(Msg(ch, None, b, NoCta), Act("obj", Some("suppress"))) :
                ch \in {None, Some("none"), Some("sms"), Some("email")},
                b \in {None, Some(<< >>), Some(<<"H", "i">>)} }
           \cup { EmptyDict } }

\* tasks with and without include_opt_out_instructions, against outputs of
\* every channel whose body is null, empty, or has or lacks an opt-out phrase
OptOutCases ==
  { EvalArgs(EvalRecord(D_none, NoThresholds, << >>,
                        [NoConstraints EXCEPT
                           !.include_opt_out_instructions = oo],
                        [sms_opt_in |-> Some(TRUE), email_opt_in |-> Some(TRUE),
                         voice_opt_in |-> None],
                        NoInput),
             Decision(Msg(ch, None, b, NoCta), Act("obj", Some("send"))),
             NoMetrics) :
      oo \in BOOLEAN,
      ch \in {None, Some("none"), Some("sms"), Some("email"), Some("voice")},
      b \in { None, Some(<< >>), Some(<<"H", "i">>), Some(<<"S", "T", "O", "P">>),
             Some(<<"n", "o", " ", "S", "t", "o", "p", "s">>),
             Some(<<"t", "o", " ", "O", "p", "t">>),
             Some(<<"U", "n", "s", "u", "b", "s", "c", "r", "i", "b", "e">>),
             Some(<<"r", "e", "p", "l", "y", " ", "s", "t", "o">>) } }

\* every subset of the threshold keys, against metrics in which each value is
\* missing, at the threshold, or beyond it
ThresholdCases ==
  { EvalArgs(EvalRecord(D_none, t, << >>, NoConstraints,
                        [sms_opt_in |-> None, email_opt_in |-> None,
                         voice_opt_in |-> None],
                        NoInput),
             D_none, m) :
      t \in [p95_latency_ms : {None, Some(5000)},
             personalization_score_min : {None, Some(Frac(1, 2))},
             locale_accuracy_min : {None, Some(Frac(9, 10))},
             safety_violations_max : {None, Some(0)}],
      m \in [tag : {"obj"},
             latency_ms : {None, Some(5000), Some(5001)},
             personalization_score : {None, Some(Frac(1, 2)), Some(Frac(2, 5))},
             locale_accuracy : {None, Some(Frac(9, 10)), Some(Frac(4, 5))},
             safety_violations : {None, Some(0), Some(1)}] }

\* decisions over every channel, subject, body, cta and next_action shape
MatchDecisions ==
  { Decision(Msg(ch, sj, b, c), a) :
      ch \in {Some("sms"), Some("email"), Some("none")},
      sj \in {None, Some(<<"Y", "o">>)},
      b \in {None, Some(<< >>), Some(<<"H", "i">>)},
      c \in {Cta("empty", None), Cta("obj", Some("reply")),
             Cta("obj", Some("link"))},
      a \in {Act("obj", Some("send")), Act("obj", Some("wait"))} }
  \cup { EmptyDict, D_nullmsg }

\* a task without thresholds, assertions or constraints: every decision
\* against itself, and the expected ones without subject, empty body, link
\* or wait against every actual one
MatchCases ==
  { EvalArgs(EvalRecord(p[1], NoThresholds, << >>, NoConstraints,
                        [sms_opt_in |-> None, email_opt_in |-> None,
                         voice_opt_in |-> None],
                        NoInput),
             p[2], NoMetrics) :
      p \in { << e, d >> \in MatchDecisions \X MatchDecisions :
                 \/ e = d
                 \/ /\ e.next_message.subject = None
                    /\ e.next_message.body # Some(<< >>)
                    /\ e.next_message.cta.type # Some("link")
                    /\ e.next_action.type # Some("wait") } }

\* the texts over a two-letter alphabet, up to MaxTextLen characters
Texts == UNION { [1..n -> {"a", "b"}] : n \in 0..MaxTextLen }

\* an sms expected and an sms received whose bodies are null or any two texts
SimilarityCases ==
  { EvalArgs(EvalRecord(Decision(Msg(Some("sms"), None, x, NoCta), NoAct),
                        NoThresholds, << >>, NoConstraints,
                        [sms_opt_in |-> None, email_opt_in |-> None,
                         voice_opt_in |-> None],
                        NoInput),
             Decision(Msg(Some("sms"), None, y, NoCta), NoAct), NoMetrics) :
      x, y \in {None} \cup { Some(t) : t \in Texts } }

\* every subset of the signals first_name, city_interest, amenity_interest and
\* unit, against bodies that name some of them in either case
PersonalizationCases ==
  { EvalArgs(EvalRecord(D_none, NoThresholds, << >>, NoConstraints,
                        [sms_opt_in |-> None, email_opt_in |-> None,
                         voice_opt_in |-> None],
                        [profile |->
                           [first_name |-> fn, city_interest |-> ci,
                            amenity_interest |-> am],
                         language |-> None, unit |-> un]),
             Decision(Msg(Some("sms"), None, b, NoCta), NoAct), NoMetrics) :
      fn \in {None, Some(<<"A", "l">>)},
      ci \in {None, Some(<<"R", "o", "m", "e">>)},
      am \in {<< >>, << <<"G", "y", "m">>, <<"P", "o", "o", "l">> >>},
      un \in {None, Some(<<"A", "1">>)},
      b \in { None, Some(<< >>), Some(<<"A", "l">>), Some(<<"h", "i", " ", "a", "l">>),
             Some(<<"R", "o", "m", "e">>), Some(<<"p", "o", "o", "l">>),
             Some(<<"a", "1">>), Some(<<"A", "1">>),
             Some(<<"A", "l", " ", "P", "o", "o", "l", " ", "A", "1">>),
             Some(<<"G", "Y", "M", " ", "a", "1", " ", "R", "o", "m", "e">>) } }

InitCases ==
  /\ caller = "eval"
  /\ agent_blobs = { }
  /\ llm_errors = { }
  /\ \E args \in ConsentCases \cup OptOutCases \cup ThresholdCases
                    \cup MatchCases \cup SimilarityCases
                    \cup PersonalizationCases :
        ev_args = Some([before |-> args, after |-> args])
  /\ pc = "eval"
  /\ records = << >>
  /\ IdleMain
  /\ IdleAgent
  /\ IdleLlm
  /\ IdleEval

SpecCases == InitCases /\ [][EvalCall]_vars

\* tasks whose required_states mix consent_verified, the three assumed states
\* and a name the evaluator does not know, with every consent record of
\* explicit flags, against an output on each channel (email, sms, voice, none
\* or no channel key), the output {} and an output whose next_message is null
AssertionCases ==
  { EvalArgs(EvalRecord(Decision(Msg(Some("voice"), None, Some(<<"H", "i">>),
                                     NoCta),
                                 Act("obj", Some("await_reply"))),
                        NoThresholds, rs,
                        [NoConstraints EXCEPT !.respect_consent = rc],
                        c, NoInput),
             o, NoMetrics) :
      rs \in { << >>, <<"consent_verified">>, <<"tone_checked">>,
               <<"renewal_offer_loaded", "consent_verified">>,
               <<"brand_style_applied", "tone_checked", "consent_verified",
                 "fair_housing_check_passed">> },
      rc \in BOOLEAN,
      c \in [sms_opt_in : {Some(TRUE), Some(FALSE)},
             email_opt_in : {Some(TRUE), Some(FALSE)},
             voice_opt_in : {Some(TRUE), Some(FALSE)}],
      o \in { Decision(Msg(ch, None, Some(<<"H", "i">>), NoCta),
                       Act("obj", Some("await_reply"))) :
                ch \in {None, Some("none"), Some("sms"), Some("email"),
                        Some("voice")} }
           \cup { EmptyDict, D_nullmsg } }

\* an email expected and an email received whose subjects and bodies are
\* prefixes of "abcdefghijklmnopqrstuvw" with similarity 1, 0.875, 0.85, 0.75,
\* 0.70 or 0.6, or two texts with similarity 0; the subject may also be
\* absent on one side or on both
BoundaryCases ==
  LET letters ==
        << "a", "b", "c", "d", "e", "f", "g", "h", "i", "j", "k", "l", "m",
           "n", "o", "p", "q", "r", "s", "t", "u", "v", "w" >>
      Prefix(n) == SubSeq(letters, 1, n)
      lengths == { << 7, 7 >>, << 7, 9 >>, << 17, 23 >>, << 3, 5 >>,
                   << 7, 13 >>, << 3, 7 >> }
      pairs ==
        { << Some(Prefix(q[1])), Some(Prefix(q[2])) >> : q \in lengths }
          \cup { << Some(Prefix(q[2])), Some(Prefix(q[1])) >> : q \in lengths }
          \cup { << Some(<<"a", "b">>), Some(<<"x", "y">>) >> }
  IN  { EvalArgs(EvalRecord(Decision(Msg(Some("email"), sp[1], bp[1], NoCta),
                                     NoAct),
                            NoThresholds, << >>, NoConstraints,
                            [sms_opt_in |-> None, email_opt_in |-> None,
                             voice_opt_in |-> None],
                            NoInput),
                 Decision(Msg(Some("email"), sp[2], bp[2], NoCta), NoAct),
                 NoMetrics) :
          sp \in pairs \cup { << None, None >>, << None, Some(Prefix(3)) >>,
                              << Some(Prefix(3)), None >> },
          bp \in pairs }

InitEdge ==
  /\ caller = "eval"
  /\ agent_blobs = { }
  /\ llm_errors = { }
  /\ \E args \in AssertionCases \cup BoundaryCases :
        ev_args = Some([before |-> args, after |-> args])
  /\ pc = "eval"
  /\ records = << >>
  /\ IdleMain
  /\ IdleAgent
  /\ IdleLlm
  /\ IdleEval

SpecEdge == InitEdge /\ [][EvalCall]_vars

(***************************************************************************)
(* Runs of main on one task whose agent always gives the same answer: the  *)
(* retry gate validate_response and run_eval see the same pair             *)
(***************************************************************************)
\* << eval record, answer >>: the task bare or with consent and opt-out
\* requirements, the answer over every channel, with and without opt-out words
GateCases ==
  { << EvalRecord(e, NoThresholds,
                  IF full THEN << "consent_verified" >> ELSE << >>,
                  [NoConstraints EXCEPT
                     !.include_opt_out_instructions = full,
                     !.respect_consent = full],
                  [sms_opt_in |-> IF full THEN Some(FALSE) ELSE None,
                   email_opt_in |-> IF full THEN Some(TRUE) ELSE None,
                   voice_opt_in |-> None],
                  NoInput),
       d >> :
      full \in BOOLEAN,
      e \in { Decision(Msg(ch, None, Some(<<"H", "i">>), NoCta),
                       Act("obj", Some("send"))) :
                ch \in {Some("sms"), Some("email"), Some("none")} }
              \cup { EmptyDict },
      d \in { Decision(Msg(ch, x[1], b, x[2]), x[3]) :
                ch \in {None, Some("none"), Some("sms"), Some("email"),
                        Some("voice")},
                b \in {None, Some(<<"H", "i">>),
                       Some(<<"n", "o", " ", "S", "t", "o", "p", "s">>),
                       Some(<<"t", "o", " ", "O", "p", "t">>)},
                x \in { << None, NoCta, Act("obj", Some("send")) >>,
                        << Some(<<"Y", "o">>), Cta("obj", Some("reply")),
                           Act("obj", Some("wait")) >> } }
              \cup { D_nullmsg } }

InitGate ==
  /\ caller = "main"
  /\ \E c \in GateCases :
        /\ records = << c[1] >>
        /\ agent_blobs = { Some(c[2]) }
  /\ llm_errors = { }
  /\ ev_args = None
  /\ pc = "main_loop"
  /\ IdleMain
  /\ IdleAgent
  /\ IdleLlm
  /\ IdleEval

SpecGate == InitGate /\ [][Next]_vars

(***************************************************************************)
(* Properties                                                              *)
(***************************************************************************)
\* the attempt of a history entry succeeded: the agent returned a non-empty
\* output on which validate_response finds no error
AttemptOk(e) ==
  /\ ~e.result.raised
  /\ e.result.value # None
  /\ Val(e.result.value) # EmptyDict
  /\ validate_response(eval_record.expected, Val(e.result.value)) = << >>

\* the attempt of a history entry ended in an exception
AttemptCrashed(e) ==
  \/ e.result.raised
  \/ e.result.value = None
  \/ Val(e.result.value) = EmptyDict

\* every attempt of the budget was made and none succeeded
TaskExhausted ==
  /\ Len(log) = max_retries
  /\ \A i \in 1..Len(log) : ~AttemptOk(log[i])

\* C1: run_with_retries invokes the agent exactly min(k, N) times, k the
\* first succeeding attempt: no attempt follows a succeeding one, which
\* returns its output at once, and it gives up only after N failed attempts.
C1_ExactlyMinAttempts ==
  /\ Len(log) <= max_retries
  /\ \A i \in 1..Len(log) :
        AttemptOk(log[i]) =>
          /\ i = Len(log)
          /\ pc = "returned"
          /\ ret = Some(log[i].result.value)
  /\ pc \in {"attempt", "retry_sleep"} => Len(log) < max_retries
  /\ pc \in {"exhausted", "returned"} =>
        /\ Len(log) >= 1
        /\ AttemptOk(log[Len(log)]) \/ Len(log) = max_retries

\* a run that succeeds on its second attempt of three and stops there
C1_Witness ==
  /\ pc = "returned"
  /\ max_retries = 3
  /\ Len(log) = 2
  /\ AttemptOk(log[2])

\* C2: a sleep of exactly 2*k follows failed attempt k iff k < max_retries;
\* none precedes attempt 1 or follows the final or a succeeding attempt, and
\* attempt k+1 starts only when the sleeps after attempts 1..k are over.
C2_SleepsBetweenAttempts ==
  /\ \A i \in 1..Len(log) :
        log[i].sleep_after =
          IF ~AttemptOk(log[i]) /\ i < max_retries THEN 2 * i ELSE 0
  /\ pc = "retry_sleep" =>
        /\ Len(log) = attempt
        /\ sleeping = [n |-> 2 * attempt, d |-> 1]
  /\ pc # "retry_sleep" => sleeping = [n |-> 0, d |-> 1]
  /\ pc = "attempt" => Len(log) = attempt - 1
  /\ slept = attempt * (attempt - 1)

\* the sleep of 4 units between attempts 2 and 3
C2_Witness ==
  /\ pc = "retry_sleep"
  /\ attempt = 2
  /\ sleeping = [n |-> 4, d |-> 1]

\* the output of the most recent attempt among those of a set, null if none
LastOutputOf(l, produced) ==
  IF produced = { } THEN None
  ELSE l[CHOOSE i \in produced : \A j \in produced : j <= i].result.value

\* the attempts that returned a value other than null
ReturnedNonNull(l) ==
  { i \in 1..Len(l) : ~l[i].result.raised /\ l[i].result.value # None }

\* the attempts that returned a value the controller takes for an output
ReturnedNonEmpty(l) == { i \in 1..Len(l) : ~AttemptCrashed(l[i]) }

\* C3: when every attempt failed, the value returned is the output of the
\* most recent attempt in which the agent produced an output, and null only
\* if no attempt produced one (an empty object may or may not count as an
\* output produced).
C3_ReturnsLastProducedOutput ==
  (pc = "returned" /\ TaskExhausted) =>
     \/ ret = Some(LastOutputOf(log, ReturnedNonNull(log)))
     \/ ret = Some(LastOutputOf(log, ReturnedNonEmpty(log)))

\* what a failed attempt leaves to describe it
Describes(e) ==
  IF e.result.raised
  THEN [kind |-> "Runtime Error", errors |-> << >>, msg |-> e.result.msg]
  ELSE IF AttemptCrashed(e)
  THEN [kind |-> "Runtime Error", errors |-> << >>, msg |-> T_no_json]
  ELSE [kind |-> "Validation Failed",
        errors |-> validate_response(eval_record.expected,
                                     Val(e.result.value)),
        msg |-> << >>]

\* C4: attempt 1 gets a null failure context; attempt k >= 2 gets the
\* description of attempt k-1: its validation errors, or its exception.
C4_FailureContext ==
  \A i \in 1..Len(log) :
     log[i].context = IF i = 1 THEN None ELSE Some(Describes(log[i - 1]))

\* a third attempt told of a crash, after a second told of validation errors
C4_Witness ==
  /\ Len(log) = 3
  /\ log[1].context = None
  /\ Val(log[2].context).kind = "Validation Failed"
  /\ Val(log[3].context).kind = "Runtime Error"

\* C5: an exception of the agent call never leaves run_with_retries: it
\* becomes the failure context, and while attempt < max_retries the run goes
\* on to the next attempt, which receives it.
C5_ExceptionsCaught ==
  /\ pc # "raised"
  /\ \A i \in 1..Len(log) :
        AttemptCrashed(log[i]) =>
          /\ log[i].error = Some(Describes(log[i]))
          /\ i < max_retries =>
               \/ Len(log) > i /\ log[i + 1].context = log[i].error
               \/ /\ Len(log) = i
                  /\ pc = "retry_sleep"
                  /\ last_error = log[i].error
               \/ /\ Len(log) = i
                  /\ attempt = i + 1
                  /\ pc = "attempt"
                  /\ last_error = log[i].error
               \/ /\ Len(log) = i
                  /\ attempt = i + 1
                  /\ pc \in {"react_step", "invoke", "backoff_sleep"}
                  /\ attempt_context = log[i].error

\* a rate-limit error that outlived the backoff, followed by another attempt
C5_Witness ==
  /\ Len(log) = 2
  /\ log[1].result = Raises(E_429)
  /\ log[2].context = Some(RuntimeError(E_429))

\* an error message of the shape the helper retries
RateLimitShaped(e) ==
  \/ Contains(e, <<"4", "2", "9">>)
  \/ Contains(Lower(e), <<"r", "a", "t", "e", "_", "l", "i", "m", "i", "t">>)

\* C6: one use of _invoke_with_backoff invokes at most 5 times, again only
\* after a rate-limit error; another error leaves at once without a sleep, a
\* rate-limit error leaves on the 5th invocation, a success ends the use.
C6_BackoffInvocations ==
  /\ bo_calls <= 5
  /\ pc = "invoke" =>
        /\ bo_calls = bo_attempt
        /\ bo_calls >= 1 =>
             bo_error # None /\ RateLimitShaped(Val(bo_error))
  /\ pc = "backoff_sleep" =>
        /\ bo_error # None
        /\ RateLimitShaped(Val(bo_error))
        /\ bo_calls = bo_attempt + 1
        /\ bo_calls < 5
  /\ (pc \notin {"invoke", "backoff_sleep"} /\ bo_error # None) =>
        /\ Len(log) >= 1
        /\ log[Len(log)].result = Raises(Val(bo_error))
        /\ bo_calls = bo_attempt + 1
        /\ RateLimitShaped(Val(bo_error)) => bo_calls = 5

\* a rate-limit error on the fifth invocation has left the helper
C6_Witness ==
  /\ pc \notin {"invoke", "backoff_sleep"}
  /\ bo_error = Some(E_429)
  /\ bo_calls = 5

\* the statuses of all checks of a Findings
FindingsStatuses(f) ==
  LET all == f.checks.output_match \o f.checks.thresholds
               \o f.checks.assertions \o f.checks.constraints
  IN  { all[i].status : i \in 1..Len(all) }

\* C7: overall_status is failed iff some check of some category is failed,
\* passed_with_warnings iff none is failed and one is a warning, passed
\* otherwise; and each category holds the whole list of its validator.
C7_OverallStatusReduction ==
  (ev_result # None /\ ~Val(ev_result).raised) =>
    LET f == Val(ev_result).value
        a == Val(ev_args).before
        st == FindingsStatuses(f)
    IN  /\ f.overall_status = "failed" <=> "failed" \in st
        /\ f.overall_status = "passed_with_warnings"
             <=> ("failed" \notin st /\ "warning" \in st)
        /\ f.overall_status = "passed" <=> st \subseteq {"passed"}
        /\ f.checks.output_match =
             validate_output_match(a.eval_record.expected, a.agent_output)
        /\ f.checks.thresholds =
             IF a.metrics.tag = "obj"
             THEN validate_thresholds(a.eval_record.thresholds, a.metrics)
             ELSE << >>
        /\ f.checks.assertions =
             validate_assertions(a.eval_record.assertions, a.agent_output,
                                 a.eval_record).value
        /\ f.checks.constraints =
             validate_constraints(a.eval_record.assertions.constraints,
                                  a.agent_output, a.eval_record).value

\* a Findings that is failed by a constraint alone, behind a threshold warning
C7_Witness ==
  /\ ev_result # None
  /\ ~Val(ev_result).raised
  /\ LET f == Val(ev_result).value
     IN  /\ f.overall_status = "failed"
         /\ \A i \in 1..Len(f.checks.output_match) :
               f.checks.output_match[i].status = "passed"
         /\ \E i \in 1..Len(f.checks.thresholds) :
               f.checks.thresholds[i].status = "warning"
         /\ \A i \in 1..Len(f.checks.thresholds) :
               f.checks.thresholds[i].status # "failed"
         /\ \E i \in 1..Len(f.checks.constraints) :
               f.checks.constraints[i].status = "failed"

\* the results of the tasks processed so far, one entry a task, in file order
C8_OneEntryPerRecord ==
  /\ Len(results) = IF pc \in {"main_loop", "done"} THEN idx ELSE idx - 1
  /\ idx <= Len(records)
  /\ \A i \in 1..Len(results) :
        /\ results[i].task_id = records[i].task_id
        /\ results[i].status
             \in {"passed", "passed_with_warnings", "failed", "error"}
  /\ pc = "done" =>
        /\ Len(results) = Len(records)
        /\ summary =
             Some([passed |->
                     Cardinality({ i \in 1..Len(results) :
                        results[i].status
                          \in {"passed", "passed_with_warnings"} }),
                   total |-> Len(records)])

\* C8: the loop takes every record in file order and appends exactly one
\* results entry for it, with a status among passed, passed_with_warnings,
\* failed and error; a task that raises does not stop the later ones, and
\* the final summary is always reached.
C8_EveryTaskRecorded == []C8_OneEntryPerRecord /\ <>(pc = "done")

\* a run whose first task raised and whose second task was still evaluated
C8_Witness ==
  /\ pc = "done"
  /\ Len(results) = 2
  /\ results[1].status = "error"
  /\ results[2].status # "error"

\* the task of the current record has just been recorded
TaskRecorded ==
  /\ caller = "main"
  /\ pc \in {"main_loop", "done"}
  /\ idx >= 1
  /\ Len(results) = idx

\* C9 as stated: a task that exhausts its retry budget gets a results entry
\* with status error.
C9_ExhaustedRecordsError ==
  (TaskRecorded /\ TaskExhausted) => results[idx].status = "error"

\* C9 amended: a task that exhausts its retry budget makes run_with_retries
\* return its last output; the entry recorded for it carries the overall
\* status run_eval gives that output, and error only if run_eval raises;
\* the loop then goes on.
C9_ExhaustedRecordsEvaluation ==
  (TaskRecorded /\ TaskExhausted) =>
    /\ ret = Some(last_output)
    /\ results[idx].task_id = eval_record.task_id
    /\ \E work \in WorkSeconds :
         LET r == run_eval(eval_record, OutputOrEmpty(last_output),
                           MainMetrics((slept + work) * 1000))
         IN  IF r.raised
             THEN /\ results[idx].status = "error"
                  /\ results[idx].output = None
             ELSE /\ results[idx].status = r.value.overall_status
                  /\ results[idx].output = last_output
    /\ idx < Len(records) => pc = "main_loop"

\* an exhausted task recorded as failed, with a task still to come
C9_Witness ==
  /\ TaskRecorded
  /\ TaskExhausted
  /\ last_output # None
  /\ results[idx].status = "failed"
  /\ idx < Len(records)

Evaluated == ev_result # None /\ ~Val(ev_result).raised

\* the checks of a list that carry a name
ChecksNamed(checks, name) == SelectSeq(checks, LAMBDA c : c.name = name)

\* C11: with respect_consent set, the constraint checks hold exactly one
\* constraint_respect_consent; it is failed iff no consent flag of the task is
\* true, the actual channel is not 'none' and the actual body is non-null,
\* and passed otherwise.
C11_RespectConsent ==
  (Evaluated
     /\ Val(ev_args).before.eval_record.assertions.constraints.respect_consent)
  =>
    LET a == Val(ev_args).before
        consent == a.eval_record.consent
        found == ChecksNamed(Val(ev_result).value.checks.constraints,
                             "constraint_respect_consent")
        every_false ==
          Some(TRUE) \notin
            {consent.sms_opt_in, consent.email_opt_in, consent.voice_opt_in}
        msg == a.agent_output.next_message
        sent == msg.channel # Some("none") /\ msg.body # None
    IN  /\ Len(found) = 1
        /\ found[1].status = IF every_false /\ sent THEN "failed" ELSE "passed"

\* consent {sms: false, email: false}, an sms with a body: failed
C11_Witness ==
  /\ Evaluated
  /\ LET a == Val(ev_args).before
     IN  /\ a.eval_record.assertions.constraints.respect_consent
         /\ a.eval_record.consent =
              [sms_opt_in |-> Some(FALSE), email_opt_in |-> Some(FALSE),
               voice_opt_in |-> None]
         /\ a.agent_output.next_message.channel = Some("sms")
         /\ a.agent_output.next_message.body = Some(<<"H", "i">>)
  /\ ChecksNamed(Val(ev_result).value.checks.constraints,
                 "constraint_respect_consent")
       = << Check("constraint_respect_consent", "failed", None) >>

\* C12: for the required state consent_verified, channel 'none' gives
\* assertion_consent_verified passed iff no consent flag is true and warning
\* otherwise; 'sms' gives passed iff sms_opt_in is true and failed otherwise;
\* 'email' gives passed iff email_opt_in is true and failed otherwise.
C12_ConsentVerified ==
  (Evaluated
     /\ \E i \in DOMAIN Val(ev_args).before.eval_record.assertions.required_states :
          Val(ev_args).before.eval_record.assertions.required_states[i]
            = "consent_verified"
     /\ Val(ev_args).before.agent_output.next_message.channel
          \in {Some("none"), Some("sms"), Some("email")})
  =>
    LET a == Val(ev_args).before
        consent == a.eval_record.consent
        channel == Val(a.agent_output.next_message.channel)
        found == ChecksNamed(Val(ev_result).value.checks.assertions,
                             "assertion_consent_verified")
        every_false ==
          Some(TRUE) \notin
            {consent.sms_opt_in, consent.email_opt_in, consent.voice_opt_in}
    IN  /\ Len(found) = 1
        /\ found[1].status =
             IF channel = "none"
             THEN (IF every_false THEN "passed" ELSE "warning")
             ELSE IF channel = "sms"
             THEN (IF consent.sms_opt_in = Some(TRUE)
                   THEN "passed" ELSE "failed")
             ELSE (IF consent.email_opt_in = Some(TRUE)
                   THEN "passed" ELSE "failed")

\* consent {sms_opt_in: false}, actual channel 'sms': failed
C12_Witness ==
  /\ Evaluated
  /\ Val(ev_args).before.eval_record.consent =
       [sms_opt_in |-> Some(FALSE), email_opt_in |-> None,
        voice_opt_in |-> None]
  /\ Val(ev_args).before.agent_output.next_message.channel = Some("sms")
  /\ ChecksNamed(Val(ev_result).value.checks.assertions,
                 "assertion_consent_verified")
       = << Check("assertion_consent_verified", "failed", None) >>

\* C13: with include_opt_out_instructions set, channel 'sms' gives exactly one
\* constraint_opt_out_sms, passed iff the lower-cased body contains "stop";
\* channel 'email' gives exactly one constraint_opt_out_email, passed iff the
\* lower-cased body contains "opt", "unsubscribe" or "reply stop"; a null body
\* contains nothing; channel 'none' gives no opt-out check.
C13_OptOutInstructions ==
  (Evaluated
     /\ Val(ev_args).before.eval_record.assertions.constraints
          .include_opt_out_instructions)
  =>
    LET a == Val(ev_args).before
        msg == a.agent_output.next_message
        low == IF msg.body = None THEN << >> ELSE Lower(Val(msg.body))
        cs == Val(ev_result).value.checks.constraints
        sms == ChecksNamed(cs, "constraint_opt_out_sms")
        email == ChecksNamed(cs, "constraint_opt_out_email")
    IN  /\ msg.channel = Some("sms") =>
              /\ email = << >>
              /\ Len(sms) = 1
              /\ sms[1].status =
                   IF Contains(low, <<"s", "t", "o", "p">>)
                   THEN "passed" ELSE "failed"
        /\ msg.channel = Some("email") =>
              /\ sms = << >>
              /\ Len(email) = 1
              /\ email[1].status =
                   IF \/ Contains(low, <<"o", "p", "t">>)
                      \/ Contains(low, <<"u", "n", "s", "u", "b", "s", "c", "r", "i", "b", "e">>)
                      \/ Contains(low, <<"r", "e", "p", "l", "y", " ", "s", "t", "o", "p">>)
                   THEN "passed" ELSE "failed"
        /\ msg.channel = Some("none") => (sms = << >> /\ email = << >>)

\* an email whose body says "to Opt" passes, although it has no "unsubscribe"
C13_Witness ==
  /\ Evaluated
  /\ Val(ev_args).before.eval_record.assertions.constraints
       .include_opt_out_instructions
  /\ Val(ev_args).before.agent_output.next_message.channel = Some("email")
  /\ Val(ev_args).before.agent_output.next_message.body
       = Some(<<"t", "o", " ", "O", "p", "t">>)
  /\ ChecksNamed(Val(ev_result).value.checks.constraints,
                 "constraint_opt_out_email")
       = << Check("constraint_opt_out_email", "passed", None) >>

\* C14: validate_thresholds emits a check for a threshold key iff the key is
\* in the task's threshold map and never raises for an absent key; latency is
\* passed iff latency_ms <= threshold, else failed; personalization passed iff
\* score >= min, else warning; locale passed iff accuracy >= min, else failed;
\* safety passed iff count <= max, else failed (a missing metric reads as 0).
C14_Thresholds ==
  (ev_result # None /\ Val(ev_args).before.metrics.tag = "obj") =>
    /\ ~Val(ev_result).raised
    /\ LET t == Val(ev_args).before.eval_record.thresholds
           m == Val(ev_args).before.metrics
           cs == Val(ev_result).value.checks.thresholds
           int(o) == IF o = None THEN 0 ELSE Val(o)
           frac(o) == IF o = None THEN [n |-> 0, d |-> 1] ELSE Val(o)
           only(name, present, status) ==
             ChecksNamed(cs, name) =
               IF present THEN << Check(name, status, None) >> ELSE << >>
       IN  /\ only("latency_threshold", t.p95_latency_ms # None,
                   IF int(m.latency_ms) <= int(t.p95_latency_ms)
                   THEN "passed" ELSE "failed")
           /\ only("personalization_score_threshold",
                   t.personalization_score_min # None,
                   IF frac(m.personalization_score).n
                        * frac(t.personalization_score_min).d
                      >= frac(t.personalization_score_min).n
                        * frac(m.personalization_score).d
                   THEN "passed" ELSE "warning")
           /\ only("locale_accuracy_threshold", t.locale_accuracy_min # None,
                   IF frac(m.locale_accuracy).n * frac(t.locale_accuracy_min).d
                      >= frac(t.locale_accuracy_min).n
                        * frac(m.locale_accuracy).d
                   THEN "passed" ELSE "failed")
           /\ only("safety_violations_threshold",
                   t.safety_violations_max # None,
                   IF int(m.safety_violations) <= int(t.safety_violations_max)
                   THEN "passed" ELSE "failed")
           /\ Len(cs) = Cardinality({ k \in DOMAIN t : t[k] # None })

\* only the personalization key is set and the score is exactly the minimum:
\* one check, passed
C14_Witness ==
  /\ Evaluated
  /\ Val(ev_args).before.eval_record.thresholds =
       [NoThresholds EXCEPT !.personalization_score_min = Some(Frac(1, 2))]
  /\ Val(ev_args).before.metrics.tag = "obj"
  /\ Val(ev_args).before.metrics.personalization_score = Some(Frac(1, 2))
  /\ Val(ev_result).value.checks.thresholds
       = << Check("personalization_score_threshold", "passed", None) >>

\* the names of a list of checks, in order
CheckNames(checks) == [i \in DOMAIN checks |-> checks[i].name]

\* C15: output_match is channel_match, then subject_match iff the expected
\* channel is 'email', then at most one body check, then cta_type_match iff
\* both the expected and the actual cta are non-empty, then
\* next_action_type_match; channel_match, cta_type_match and
\* next_action_type_match are passed on equality and failed otherwise.
C15_OutputMatchOrder ==
  Evaluated =>
    LET a == Val(ev_args).before
        em == a.eval_record.expected.next_message
        am == a.agent_output.next_message
        cs == Val(ev_result).value.checks.output_match
        eq(x, y) == IF x = y THEN "passed" ELSE "failed"
        subject == IF em.channel = Some("email")
                   THEN << "subject_match" >> ELSE << >>
        cta == IF em.cta.tag = "obj" /\ am.cta.tag = "obj"
               THEN << "cta_type_match" >> ELSE << >>
    IN  /\ \E body \in { << >>, << "body_similarity" >>,
                         << "body_null_match" >> } :
              CheckNames(cs) =
                << "channel_match" >> \o subject \o body \o cta
                  \o << "next_action_type_match" >>
        /\ cs[1].status = eq(em.channel, am.channel)
        /\ cs[Len(cs)].status =
             eq(a.eval_record.expected.next_action.type,
                a.agent_output.next_action.type)
        /\ cta # << >> =>
             cs[Len(cs) - 1].status = eq(em.cta.type, am.cta.type)

\* expected an email with a cta, got an sms with another cta: five checks
C15_Witness ==
  /\ Evaluated
  /\ Val(ev_args).before.eval_record.expected.next_message.channel
       = Some("email")
  /\ Len(Val(ev_result).value.checks.output_match) = 5
  /\ [i \in 1..5 |->
        << Val(ev_result).value.checks.output_match[i].name,
           Val(ev_result).value.checks.output_match[i].status >>]
       = << << "channel_match", "failed" >>, << "subject_match", "failed" >>,
            << "body_similarity", "passed" >>, << "cta_type_match", "failed" >>,
            << "next_action_type_match", "passed" >> >>

\* exactly one of the expected and the actual body is null
OneBodyNull ==
  (Val(ev_args).before.eval_record.expected.next_message.body = None)
    # (Val(ev_args).before.agent_output.next_message.body = None)

\* C16: when exactly one of the expected body and the actual body is null,
\* output_match has neither body_similarity nor body_null_match, and the
\* Findings hold a non-passed channel_match or constraint check, so that
\* overall_status is not 'passed'.
C16_NullBodyMismatchCaught ==
  (Evaluated /\ OneBodyNull) =>
    LET f == Val(ev_result).value
    IN  /\ ChecksNamed(f.checks.output_match, "body_similarity") = << >>
        /\ ChecksNamed(f.checks.output_match, "body_null_match") = << >>
        /\ \/ ChecksNamed(f.checks.output_match, "channel_match")[1].status
                # "passed"
           \/ \E i \in DOMAIN f.checks.constraints :
                 f.checks.constraints[i].status # "passed"
        /\ f.overall_status # "passed"

\* C17: when the actual output is identical to the expected output, every
\* output_match check is passed, subject_match and body_similarity carry
\* similarity 1.0, and overall_status is passed unless a threshold, assertion
\* or constraint check is not passed.
C17_IdenticalOutputPasses ==
  (Evaluated
     /\ Val(ev_args).before.agent_output
          = Val(ev_args).before.eval_record.expected)
  =>
    LET f == Val(ev_result).value
        om == f.checks.output_match
        others ==
          f.checks.thresholds \o f.checks.assertions \o f.checks.constraints
    IN  /\ \A i \in DOMAIN om :
              /\ om[i].status = "passed"
              /\ om[i].name \in {"subject_match", "body_similarity"} =>
                   /\ om[i].similarity # None
                   /\ Val(om[i].similarity).n = Val(om[i].similarity).d
        /\ (\A i \in DOMAIN others : others[i].status = "passed")
              => f.overall_status = "passed"

\* an email decision with subject, body and cta evaluated against itself:
\* five checks, all passed, and the overall status is passed
C17_Witness ==
  /\ Evaluated
  /\ Val(ev_args).before.agent_output
       = Decision(Msg(Some("email"), Some(<<"Y", "o">>), Some(<<"H", "i">>),
                      Cta("obj", Some("link"))),
                  Act("obj", Some("wait")))
  /\ Val(ev_args).before.eval_record.expected
       = Val(ev_args).before.agent_output
  /\ CheckNames(Val(ev_result).value.checks.output_match)
       = << "channel_match", "subject_match", "body_similarity",
            "cta_type_match", "next_action_type_match" >>
  /\ Val(ev_result).value.overall_status = "passed"

\* C18: for non-null strings a and b, similarity(a, b) = similarity(b, a),
\* 0 <= similarity(a, b) <= 1, and similarity(a, a) = 1.
C18_SimilaritySymmetric ==
  (Evaluated
     /\ Val(ev_args).before.eval_record.expected.next_message.body # None
     /\ Val(ev_args).before.agent_output.next_message.body # None)
  =>
    LET a == Val(ev_args).before.eval_record.expected.next_message.body
        b == Val(ev_args).before.agent_output.next_message.body
        sim == Val(ev_result).value.scores.body_similarity
        swapped == calculate_similarity(b, a)
    IN  /\ sim.n * swapped.d = swapped.n * sim.d
        /\ 0 <= sim.n /\ sim.n <= sim.d
        /\ a = b => sim.n = sim.d

\* C19: the similarity never fails; it is 1.0 when both texts are empty or
\* null and 0.0 when exactly one of them is empty or null.
C19_SimilarityOfNothing ==
  ev_result # None =>
    /\ ~Val(ev_result).raised
    /\ LET a == Val(ev_args).before.eval_record.expected.next_message.body
           b == Val(ev_args).before.agent_output.next_message.body
           sim == Val(ev_result).value.scores.body_similarity
           nothing(x) == x = None \/ x = Some(<< >>)
       IN  /\ sim.d > 0
           /\ (nothing(a) /\ nothing(b)) => sim.n = sim.d
           /\ (nothing(a) # nothing(b)) => sim.n = 0

\* similarity("a", null) is 0.0
C19_Witness ==
  /\ Evaluated
  /\ Val(ev_args).before.eval_record.expected.next_message.body
       = Some(<<"a">>)
  /\ Val(ev_args).before.agent_output.next_message.tag = "obj"
  /\ Val(ev_args).before.agent_output.next_message.body = None
  /\ Val(ev_result).value.scores.body_similarity = Frac(0, 1)

\* C20: personalization_score is points / max_points, where max_points counts
\* the signals present among first_name, city_interest, amenity_interest and
\* unit, and points counts those of first_name, amenity_interest (any one
\* amenity) and unit found in the actual body; a city_interest never earns a
\* point; 0 <= points <= max_points; the score is 1.0 when max_points is 0.
C20_PersonalizationScore ==
  Evaluated =>
    LET a == Val(ev_args).before
        profile == a.eval_record.input.profile
        unit == a.eval_record.input.unit
        raw == IF a.agent_output.next_message.body = None THEN << >>
               ELSE Val(a.agent_output.next_message.body)
        present(o) == o # None /\ Val(o) # << >>
        one(p) == IF p THEN 1 ELSE 0
        max_points ==
          one(present(profile.first_name)) + one(present(profile.city_interest))
            + one(profile.amenity_interest # << >>) + one(present(unit))
        points ==
          one(present(profile.first_name)
                /\ Contains(Lower(raw), Lower(Val(profile.first_name))))
            + one(\E i \in DOMAIN profile.amenity_interest :
                     Contains(Lower(raw), Lower(profile.amenity_interest[i])))
            + one(present(unit) /\ Contains(raw, Val(unit)))
        score == Val(ev_result).value.scores.personalization_score
    IN  /\ 0 <= points /\ points <= max_points
        /\ score.d > 0
        /\ IF max_points = 0 THEN score.n = score.d
           ELSE score.n * max_points = points * score.d

\* all four signals present, the body names the first name, an amenity and
\* the unit: 3 points of 4, the city being the fourth
C20_Witness ==
  /\ Evaluated
  /\ Val(ev_args).before.eval_record.input =
       [profile |->
          [first_name |-> Some(<<"A", "l">>),
           city_interest |-> Some(<<"R", "o", "m", "e">>),
           amenity_interest |-> << <<"G", "y", "m">>, <<"P", "o", "o", "l">> >>],
        language |-> None, unit |-> Some(<<"A", "1">>)]
  /\ Val(ev_args).before.agent_output.next_message.body
       = Some(<<"A", "l", " ", "P", "o", "o", "l", " ", "A", "1">>)
  /\ Val(ev_result).value.scores.personalization_score = Frac(3, 4)

\* C21: in a run, the personalization and locale threshold checks of a task
\* are passed exactly when the personalization_score and locale_accuracy of
\* the same Findings' scores meet the task's minimum.
C21_ThresholdsUseScores ==
  \A i \in DOMAIN results :
     results[i].eval_findings # None =>
       LET f == Val(results[i].eval_findings)
           t == records[i].thresholds
           p == ChecksNamed(f.checks.thresholds,
                            "personalization_score_threshold")
           l == ChecksNamed(f.checks.thresholds, "locale_accuracy_threshold")
           meets(min, score) == min.n * score.d <= score.n * min.d
       IN  /\ t.personalization_score_min # None =>
                /\ Len(p) = 1
                /\ p[1].status = "passed"
                     <=> meets(Val(t.personalization_score_min),
                               f.scores.personalization_score)
           /\ t.locale_accuracy_min # None =>
                /\ Len(l) = 1
                /\ l[1].status = "passed"
                     <=> meets(Val(t.locale_accuracy_min),
                               f.scores.locale_accuracy)

\* C22: whenever a metrics mapping is supplied, even one with no entries, the
\* thresholds category holds one check per threshold key of the task; it is
\* empty when metrics is absent; the other categories and the scores are
\* computed in both cases.
C22_ThresholdsIffMetrics ==
  Evaluated =>
    LET a == Val(ev_args).before
        t == a.eval_record.thresholds
        f == Val(ev_result).value
    IN  /\ a.metrics.tag # "none" =>
              Len(f.checks.thresholds)
                = Cardinality({ k \in DOMAIN t : t[k] # None })
        /\ a.metrics.tag = "none" => f.checks.thresholds = << >>
        /\ f.checks.output_match # << >>
        /\ f.scores.safety_violations = 0

\* C23: validate_response(expected, actual) returns no error iff the expected
\* and actual channels are equal, an sms body contains "stop" and an email
\* body contains "opt", "unsubscribe" or "reply stop" (lower-cased); nothing
\* else of the output or of the task influences it.
C23_GateCriteria ==
  \A i \in DOMAIN results :
     results[i].status # "error" =>
       LET em == records[i].expected.next_message
           am == Val(results[i].output).next_message
           low == IF am.body = None THEN << >> ELSE Lower(Val(am.body))
       IN  results[i].errors = << >>
             <=> /\ em.channel = am.channel
                 /\ am.channel = Some("sms")
                      => Contains(low, <<"s", "t", "o", "p">>)
                 /\ am.channel = Some("email")
                      => \/ Contains(low, <<"o", "p", "t">>)
                         \/ Contains(low, <<"u", "n", "s", "u", "b", "s", "c", "r", "i", "b", "e">>)
                         \/ Contains(low, <<"r", "e", "p", "l", "y", " ", "s", "t", "o", "p">>)

\* an email with an opt-out phrase passes the gate although its subject, cta
\* and next_action differ from the expected ones and the task carries
\* consent data and constraints
C23_Witness ==
  /\ TaskRecorded
  /\ records[1].expected.next_message.channel = Some("email")
  /\ records[1].assertions.constraints.respect_consent
  /\ results[1].status = "failed"
  /\ results[1].errors = << >>
  /\ Val(results[1].output).next_message.subject = Some(<<"Y", "o">>)
  /\ Val(results[1].output).next_action.type = Some("wait")

\* C28: whenever validate_response returns no error, the Findings of run_eval
\* for the same record and output have channel_match passed and no failed
\* constraint_opt_out_sms or constraint_opt_out_email.
C28_GateNotWeakerThanEngine ==
  \A i \in DOMAIN results :
     (results[i].eval_findings # None /\ results[i].errors = << >>) =>
       LET f == Val(results[i].eval_findings)
       IN  /\ ChecksNamed(f.checks.output_match, "channel_match")
                = << Check("channel_match", "passed", None) >>
           /\ \A j \in DOMAIN f.checks.constraints :
                 f.checks.constraints[j].name
                   \in {"constraint_opt_out_sms", "constraint_opt_out_email"}
                 => f.checks.constraints[j].status # "failed"

\* an sms that passes the gate, on a task that requires opt-out instructions:
\* the engine's constraint_opt_out_sms is passed as well
C28_Witness ==
  /\ TaskRecorded
  /\ results[1].errors = << >>
  /\ results[1].eval_findings # None
  /\ records[1].assertions.constraints.include_opt_out_instructions
  /\ ChecksNamed(Val(results[1].eval_findings).checks.constraints,
                 "constraint_opt_out_sms")
       = << Check("constraint_opt_out_sms", "passed", None) >>

\* the attempt now recorded in the log ended right after a step whose JSON
\* block did not parse
EndedAfterParseFailure == Len(log) = attempt /\ last_message = "invalid_json"

\* C24 as stated: a JSON block that fails to parse raises nothing out of the
\* retry controller and makes the attempt count as failed; an attempt asks
\* the agent for at most 10 steps.
C24_ParseFailureFailsAttempt ==
  /\ pc # "raised"
  /\ step <= 10
  /\ EndedAfterParseFailure => log[attempt].outcome # "succeeded"

\* C24 amended: a JSON block that fails to parse raises nothing and leaves the
\* attempt running: the next step of the same attempt follows; an attempt
\* asks for at most 10 steps; one that ends without output fails with the
\* context "Agent failed to produce JSON output.", one that ends with a
\* parsed output succeeds or fails on that output alone, one that ends with
\* an error of the LLM call fails with that error.
C24_ParseFailureStaysInAttempt ==
  /\ pc # "raised"
  /\ step <= 10
  /\ (pc = "react_step" /\ last_message = "invalid_json") =>
        /\ Len(log) = attempt - 1
        /\ step >= 1
  /\ EndedAfterParseFailure =>
        LET e == log[attempt]
            output == e.result.value
        IN  IF e.result.raised THEN e.outcome = "raised"
            ELSE IF output = None \/ Val(output) = EmptyDict
            THEN /\ e.outcome = "no_output"
                 /\ e.error = Some(RuntimeError(T_no_json))
            ELSE e.outcome =
                   IF validate_response(eval_record.expected, Val(output))
                        = << >>
                   THEN "succeeded" ELSE "invalid"

\* an attempt that succeeds on the step after a parse failure
C24_Witness ==
  /\ EndedAfterParseFailure
  /\ step >= 1
  /\ log[attempt].outcome = "succeeded"
  /\ pc = "returned"

\* the required states the evaluator knows, in the order they are required
RecognisedStates(required_states) ==
  SelectSeq(required_states,
            LAMBDA st : st \in {"consent_verified"} \cup AssumedStates)

\* C25: whatever the channel of the output (email, sms, voice, none or
\* absent), validate_assertions raises nothing and emits exactly one check per
\* recognised name of required_states, named assertion_<state> and in the
\* order of required_states; the three assumed states are always passed.
C25_OneCheckPerState ==
  ev_result # None =>
    LET known ==
          RecognisedStates(
            Val(ev_args).before.eval_record.assertions.required_states)
    IN  /\ ~Val(ev_result).raised
        /\ LET checks == Val(ev_result).value.checks.assertions
           IN  /\ CheckNames(checks)
                    = [i \in DOMAIN known |-> "assertion_" \o known[i]]
               /\ \A i \in DOMAIN checks :
                     checks[i].name # "assertion_consent_verified"
                       => checks[i].status = "passed"

\* C26: run_eval raises nothing and returns Findings whose overall_status is
\* passed, passed_with_warnings or failed, for every output, among them one
\* whose next_message is null or whose cta is null.
C26_RunEvalTotal ==
  ev_result # None =>
    /\ ~Val(ev_result).raised
    /\ Val(ev_result).value.overall_status
         \in {"passed", "passed_with_warnings", "failed"}

\* the opt-in flag of the channel the output chose
ChannelFlag(consent, channel) ==
  IF channel = Some("sms") THEN consent.sms_opt_in
  ELSE IF channel = Some("email") THEN consent.email_opt_in
  ELSE consent.voice_opt_in

\* C29: when consent_verified is required and the output's channel is email,
\* sms or voice while that channel's opt-in flag is false, the Findings hold
\* a failed assertion_consent_verified and overall_status is failed.
C29_NoConsentNeverPasses ==
  LET a == Val(ev_args).before
      channel == a.agent_output.next_message.channel
  IN  (/\ ev_result # None
       /\ \E i \in DOMAIN a.eval_record.assertions.required_states :
             a.eval_record.assertions.required_states[i] = "consent_verified"
       /\ channel \in {Some("email"), Some("sms"), Some("voice")}
       /\ ChannelFlag(a.eval_record.consent, channel) = Some(FALSE))
      =>
      /\ ~Val(ev_result).raised
      /\ \E i \in DOMAIN Val(ev_result).value.checks.assertions :
            Val(ev_result).value.checks.assertions[i]
              = Check("assertion_consent_verified", "failed", None)
      /\ Val(ev_result).value.overall_status = "failed"

\* the checks of output_match that carry a similarity
SimilarityChecks ==
  SelectSeq(Val(ev_result).value.checks.output_match,
            LAMBDA c : c.name \in {"subject_match", "body_similarity"})

\* C27: subject_match and body_similarity are passed iff similarity > 0.85,
\* warning iff 0.70 < similarity <= 0.85 and failed iff similarity <= 0.70;
\* with expected channel email, subject_match is passed when both subjects
\* are absent and failed when exactly one is.
C27_StrictSimilarityBounds ==
  Evaluated =>
    LET a == Val(ev_args).before
        exp_subject == a.eval_record.expected.next_message.subject
        act_subject == a.agent_output.next_message.subject
        subject == ChecksNamed(Val(ev_result).value.checks.output_match,
                               "subject_match")
    IN  /\ \A i \in DOMAIN SimilarityChecks :
              LET c == SimilarityChecks[i]
                  n == Val(c.similarity).n
                  d == Val(c.similarity).d
              IN  /\ c.status \in {"passed", "warning", "failed"}
                  /\ c.status = "passed" <=> 100 * n > 85 * d
                  /\ c.status = "warning" <=>
                       (10 * n > 7 * d /\ 100 * n <= 85 * d)
                  /\ c.status = "failed" <=> 10 * n <= 7 * d
        /\ a.eval_record.expected.next_message.channel = Some("email") =>
              /\ Len(subject) = 1
              /\ (exp_subject = None /\ act_subject = None)
                    => subject[1].status = "passed"
              /\ ((exp_subject = None) # (act_subject = None))
                    => subject[1].status = "failed"

\* subjects with similarity exactly 0.85 (a warning) and bodies with
\* similarity exactly 0.70 (a failure)
C27_Witness ==
  /\ Evaluated
  /\ Len(SimilarityChecks) = 2
  /\ SimilarityChecks[1].name = "subject_match"
  /\ FracEq(Val(SimilarityChecks[1].similarity), Frac(85, 100))
  /\ SimilarityChecks[1].status = "warning"
  /\ FracEq(Val(SimilarityChecks[2].similarity), Frac(7, 10))
  /\ SimilarityChecks[2].status = "failed"

\* C30: the helper sleeps only after a rate-limit failure it retries: the
\* sleep after the i-th consecutive failure (i = 1..4) lasts 2^(i-1) units
\* plus a jitter of at most one unit; nothing is slept before the first
\* invocation, after a successful invocation or after the failure that is
\* propagated.
C30_BackoffSleeps ==
  /\ bo_attempt \in 0..(BackoffMaxRetries - 1)
  /\ pc = "backoff_sleep" =>
        /\ bo_error # None
        /\ IsRateLimit(Val(bo_error))
        /\ bo_calls = bo_attempt + 1
        /\ bo_calls \in 1..4
        /\ delay = 2 ^ (bo_calls - 1)
        /\ delay * sleeping.d <= sleeping.n
        /\ sleeping.n <= (delay + 1) * sleeping.d
  /\ pc = "invoke" =>
        /\ sleeping = Zero
        /\ bo_calls = bo_attempt
        /\ delay = 2 ^ bo_calls
  /\ (sleeping.n # 0 /\ pc # "backoff_sleep") =>
        /\ pc = "retry_sleep"
        /\ sleeping = Frac(RetryDelay(attempt), 1)

\* the sleep after the fourth consecutive rate-limit failure, with jitter
C30_Witness ==
  /\ pc = "backoff_sleep"
  /\ bo_calls = 4
  /\ delay = 8
  /\ FracLt(Frac(8, 1), sleeping)

====
